---------------------------- MODULE Spec2Model ----------------------------
(***************************************************************************)
(* A model of pycco's section parser (pycco/main.py, parse) and of its     *)
(* path helpers (destination), with the language table of                  *)
(* pycco/languages.py.                                                     *)
(*                                                                         *)
(* Text is modelled at character level: a Python str is a sequence of      *)
(* one-character strings, so that startswith, endswith, strip,             *)
(* removeprefix, replace and the regular expressions of the source are     *)
(* computed, not assumed.                                                  *)
(***************************************************************************)
EXTENDS Integers, Sequences, FiniteSets, TLC

\* ------------------------------------------------------------------------
\* Bounds of the model.
\* ------------------------------------------------------------------------

\* Longest input text, in lines, parsed under each language of the table.
MaxLines == 2

\* Longest input text, in lines, parsed under the C definition.
MaxLinesC == 3

\* ------------------------------------------------------------------------
\* Python's str operations, on sequences of characters.
\* ------------------------------------------------------------------------

NL == "\n"

\* The characters str.strip() and the regex class \s remove (of those that
\* occur in the modelled inputs).
Whitespace == {" ", "\t", NL}

\* Python's None.
None == <<"None">>

startswith(s, p) == Len(p) <= Len(s) /\ SubSeq(s, 1, Len(p)) = p

endswith(s, p) == Len(p) <= Len(s) /\ SubSeq(s, Len(s) - Len(p) + 1, Len(s)) = p

RECURSIVE lstrip(_)
lstrip(s) == IF s # <<>> /\ Head(s) \in Whitespace THEN lstrip(Tail(s)) ELSE s

RECURSIVE rstrip(_)
rstrip(s) ==
    IF s # <<>> /\ s[Len(s)] \in Whitespace THEN rstrip(SubSeq(s, 1, Len(s) - 1)) ELSE s

strip(s) == rstrip(lstrip(s))

removeprefix(s, p) == IF startswith(s, p) THEN SubSeq(s, Len(p) + 1, Len(s)) ELSE s

removesuffix(s, p) ==
    IF p # <<>> /\ endswith(s, p) THEN SubSeq(s, 1, Len(s) - Len(p)) ELSE s

\* s.replace(old, ''): every non-overlapping occurrence of old, left to right.
RECURSIVE remove_all(_, _)
remove_all(s, old) ==
    IF s = <<>> THEN <<>>
    ELSE IF startswith(s, old) THEN remove_all(SubSeq(s, Len(old) + 1, Len(s)), old)
    ELSE <<Head(s)>> \o remove_all(Tail(s), old)

\* ' '.join([a, b])
join_space(a, b) == a \o <<" ">> \o b

\* sep.join(list)
RECURSIVE join(_, _)
join(sep, list) ==
    IF list = <<>> THEN <<>>
    ELSE IF Len(list) = 1 THEN list[1]
    ELSE list[1] \o sep \o join(sep, Tail(list))

\* s.split("\n"): always at least one piece.
RECURSIVE split_nl(_)
split_nl(s) ==
    IF \A k \in 1..Len(s) : s[k] # NL THEN <<s>>
    ELSE LET k == CHOOSE k \in 1..Len(s) : s[k] = NL /\ \A j \in 1..(k - 1) : s[j] # NL
         IN  <<SubSeq(s, 1, k - 1)>> \o split_nl(SubSeq(s, k + 1, Len(s)))

\* s[:-1]
drop_last(s) == IF s = <<>> THEN <<>> ELSE SubSeq(s, 1, Len(s) - 1)

\* s.split('\n')[-1]
last_piece(s) == LET pieces == split_nl(s) IN pieces[Len(pieces)]

\* re.match(r"\s*", line).group(0)
leading_whitespace(line) == SubSeq(line, 1, Len(line) - Len(lstrip(line)))

\* re.match(r' {N}', line) with N = len(indent)
match_spaces(indent, line) ==
    Len(line) >= Len(indent) /\ \A k \in 1..Len(indent) : line[k] = " "

\* ------------------------------------------------------------------------
\* pycco/languages.py
\* ------------------------------------------------------------------------

HASH == <<"#">>
SLASH_STAR == <<"/", "*">>
STAR_SLASH == <<"*", "/">>
SLASH_SLASH == <<"/", "/">>
DASH_DASH == <<"-", "-">>
TRIPLE_QUOTE == <<"\"", "\"", "\"">>

\* lang with each delimiter that is given kept, whether or not the other is.
lang_each(name, comment_symbol, multistart, multiend) ==
    LET given == {"name", "comment_symbol"}
                    \cup (IF multistart # None THEN {"multistart"} ELSE {})
                    \cup (IF multiend # None THEN {"multiend"} ELSE {})
    IN  [key \in given |->
            CASE key = "name" -> name
              [] key = "comment_symbol" -> comment_symbol
              [] key = "multistart" -> multistart
              [] key = "multiend" -> multiend]

\* lang(name, comment_symbol, multistart=None, multiend=None)
lang(name, comment_symbol, multistart, multiend) ==
    IF multistart # None /\ multiend # None
    THEN [name |-> name, comment_symbol |-> comment_symbol,
          multistart |-> multistart, multiend |-> multiend]
    ELSE [name |-> name, comment_symbol |-> comment_symbol]

c_lang == lang("c", SLASH_SLASH, SLASH_STAR, STAR_SLASH)

supported_languages ==
    [ext \in {".coffee", ".pl", ".sql", ".sh", ".c", ".h", ".cl", ".css", ".cpp",
              ".js", ".rb", ".py", ".pyx", ".scm", ".lua", ".erl", ".tcl", ".hs",
              ".r", ".R", ".jl", ".m", ".do"} |->
        CASE ext = ".coffee" -> lang("coffee-script", HASH, <<"#", "#", "#">>, <<"#", "#", "#">>)
          [] ext = ".pl"  -> lang("perl", HASH, None, None)
          [] ext = ".sql" -> lang("sql", DASH_DASH, SLASH_STAR, STAR_SLASH)
          [] ext = ".sh"  -> lang("bash", HASH, None, None)
          [] ext = ".c"   -> c_lang
          [] ext = ".h"   -> c_lang
          [] ext = ".cl"  -> c_lang
          [] ext = ".css" -> lang("css", SLASH_SLASH, SLASH_STAR, STAR_SLASH)
          [] ext = ".cpp" -> lang("cpp", SLASH_SLASH, SLASH_STAR, STAR_SLASH)
          [] ext = ".js"  -> lang("javascript", SLASH_SLASH, SLASH_STAR, STAR_SLASH)
          [] ext = ".rb"  -> lang("ruby", HASH, <<"=", "b", "e", "g", "i", "n">>, <<"=", "e", "n", "d">>)
          [] ext = ".py"  -> lang("python", HASH, TRIPLE_QUOTE, TRIPLE_QUOTE)
          [] ext = ".pyx" -> lang("cython", HASH, TRIPLE_QUOTE, TRIPLE_QUOTE)
          [] ext = ".scm" -> lang("scheme", <<";", ";">>, <<"#", "|">>, <<"|", "#">>)
          [] ext = ".lua" -> lang("lua", DASH_DASH, <<"-", "-", "[", "[">>, <<"-", "-", "]", "]">>)
          [] ext = ".erl" -> lang("erlang", <<"%", "%">>, None, None)
          [] ext = ".tcl" -> lang("tcl", HASH, None, None)
          [] ext = ".hs"  -> lang("haskell", DASH_DASH, <<"{", "-">>, <<"-", "}">>)
          [] ext = ".r"   -> lang("r", HASH, None, None)
          [] ext = ".R"   -> lang("r", HASH, None, None)
          [] ext = ".jl"  -> lang("julia", HASH, <<"#", "=">>, <<"=", "#">>)
          [] ext = ".m"   -> lang("matlab", <<"%">>, <<"%", "{">>, <<"%", "}">>)
          [] ext = ".do"  -> lang("stata", SLASH_SLASH, SLASH_STAR, STAR_SLASH)]

\* supported_languages.values()
Languages == {supported_languages[ext] : ext \in DOMAIN supported_languages}

\* dict.get(key): None when the key is absent.
get(d, key) == IF key \in DOMAIN d THEN d[key] ELSE None

\* compile_language: comment_matcher = re.compile(r"^\s*{}\s?".format(comment_symbol));
\* re.match(comment_matcher, line)
comment_matcher_match(comment_symbol, line) == startswith(lstrip(line), comment_symbol)

\* The comment with its symbol removed and then trimmed on both sides.
comment_matcher_sub_trimmed(comment_symbol, line) ==
    strip(removeprefix(lstrip(line), comment_symbol))

\* re.sub(comment_matcher, "", line): the pattern is anchored, so at most the
\* leading whitespace, the symbol and one whitespace character after it go.
comment_matcher_sub(comment_symbol, line) ==
    IF ~comment_matcher_match(comment_symbol, line) THEN line
    ELSE LET rest == removeprefix(lstrip(line), comment_symbol)
         IN  IF rest # <<>> /\ Head(rest) \in Whitespace THEN Tail(rest) ELSE rest

\* ------------------------------------------------------------------------
\* pycco/main.py: parse(source_code, source_language)
\* ------------------------------------------------------------------------

VARIABLES
    source_code,        \* parse's first argument
    source_language,    \* parse's second argument, an entry of the table
    pc,                 \* where the running function is: "parse", "normalize", "split",
                        \* "save", "destination"; then "done" or "raised"
    raised,             \* the exception the running function ended with, or "none"
    lines,              \* source_code.split("\n"), less the interpreter line
    converted_lines,    \* the output of the first loop
    i,                  \* the index of the line the running loop is at (from 1)
    in_multi_comment,   \* first loop: inside a block comment
    multi_line,         \* second loop
    multi_string,       \* second loop
    process_as_code,    \* second loop
    indent_level,       \* second loop; Unbound until the first assignment
    has_code,           \* "" or True in the source: its truth value
    docs_text,
    code_text,
    sections,           \* the list parse returns
    dycco_sections      \* python only: what dycco's parse returned

parse_vars == <<source_code, source_language, lines, converted_lines, i,
                in_multi_comment, multi_line, multi_string, process_as_code, indent_level,
                has_code, docs_text, code_text, sections, dycco_sections>>

\* destination(filepath, preserve_paths, outdir, replace_dots, extension) and
\* the path it returns.
VARIABLES filepath, preserve_paths, outdir, replace_dots, extension, dest

dest_vars == <<filepath, preserve_paths, outdir, replace_dots, extension, dest>>

\* get_language(source, code, language_name): its arguments, what
\* lexers.guess_lexer(code) answered when it was asked, the definition returned
\* and the message of the ValueError raised.
VARIABLES source, language_name, guessed, language, message

get_language_vars == <<source, language_name, guessed, language, message>>

\* process(sources, preserve_paths, outdir, ..., index, skip, underlines,
\* use_ascii, ..., single_file): preserve_paths, outdir, underlines (as
\* replace_dots) and the extension are the variables of destination above.
VARIABLES
    sources_arg,        \* the list the caller passed
    sources,            \* the sorted copy that next_file pops from
    skip,
    index,
    use_ascii,
    single_file,
    generated_files,
    attempts,           \* the calls of generate_documentation so far: the source and
                        \* how the call ended
    indexed             \* the files generate_index was given

process_vars == <<sources_arg, sources, skip, index, use_ascii, single_file,
                  generated_files, attempts, indexed>>

\* preprocess(comment, preserve_paths, outdir): the comment, the parts it is
\* made of, and the text returned.
VARIABLES comment, comment_parts, preprocessed

preprocess_vars == <<comment, comment_parts, preprocessed>>

\* lang(name, comment_symbol, multistart, multiend): its arguments and the
\* definition it returns.
VARIABLES lang_args, definition

lang_vars == <<lang_args, definition>>

\* shift(a_list, default), called again and again on one list: the list as it
\* was first given, and the values returned so far.
VARIABLES a_list, default, given_list, shifted

shift_vars == <<a_list, default, given_list, shifted>>

\* highlight(sections, language, preserve_paths, outdir, use_ascii,
\* escape_html, single_file): sections and the loop index i are those of parse
\* above, the options those of process; fragments is what splitting the
\* output of pygments gave.
VARIABLES fragments, escape_html

highlight_vars == <<fragments, escape_html>>

rest_vars == <<shift_vars, highlight_vars>>

\* The variables of the functions other than parse and destination.
later_vars == <<get_language_vars, process_vars, preprocess_vars, lang_vars, rest_vars>>

vars == <<pc, raised, parse_vars, dest_vars, later_vars>>

\* get_language is not running.
GetLanguageIdle ==
    /\ source = <<"None">>
    /\ language_name = <<"None">>
    /\ guessed = ""
    /\ language = [name |-> "(nothing)"]
    /\ message = ""

\* process is not running.
ProcessIdle ==
    /\ sources_arg = <<>>
    /\ sources = <<>>
    /\ skip = FALSE
    /\ index = FALSE
    /\ use_ascii = FALSE
    /\ single_file = FALSE
    /\ generated_files = <<>>
    /\ attempts = <<>>
    /\ indexed = <<>>

\* preprocess is not running.
PreprocessIdle ==
    /\ comment = <<>>
    /\ comment_parts = <<>>
    /\ preprocessed = <<>>

\* lang is not running.
LangIdle ==
    /\ lang_args = <<>>
    /\ definition = [name |-> "(nothing)"]

\* shift is not running.
ShiftIdle ==
    /\ a_list = <<>>
    /\ default = ""
    /\ given_list = <<>>
    /\ shifted = <<>>

\* highlight is not running.
HighlightIdle ==
    /\ fragments = <<>>
    /\ escape_html = FALSE

RestIdle == ShiftIdle /\ HighlightIdle

\* None of the functions other than parse and destination is running.
LaterIdle == GetLanguageIdle /\ ProcessIdle /\ PreprocessIdle /\ LangIdle /\ RestIdle

\* A local name that no assignment has bound yet.
Unbound == <<"unbound">>

\* save without its guard: every pair is appended.
save_unguarded(secs, docs, code) == Append(secs, [docs_text |-> docs, code_text |-> code])

\* save(docs, code), as the list of sections it leaves.
save(secs, docs, code) ==
    IF docs # <<>> \/ code # <<>>
    THEN Append(secs, [docs_text |-> docs, code_text |-> code])
    ELSE secs

\* The truth value of a str-or-None.
truthy(s) == s # None /\ s # <<>>

multi_comment_start == get(source_language, "multistart")
multi_comment_end == get(source_language, "multiend")
single_line_comment_symbol == source_language.comment_symbol

\* Lines 197-206 and 224-232: split the text, drop an interpreter line, set
\* up the flags of the generic path.
ParseEntry ==
    /\ pc = "parse"
    /\ source_language.name # "python"
    /\ LET all == split_nl(source_code)
           kept == IF startswith(all[1], <<"#", "!">>) THEN Tail(all) ELSE all
       IN  /\ lines' = kept
           /\ pc' = IF kept = <<>> THEN "save" ELSE "normalize"
    /\ i' = 1
    /\ sections' = <<>>
    /\ has_code' = FALSE
    /\ docs_text' = <<>>
    /\ code_text' = <<>>
    /\ multi_line' = FALSE
    /\ multi_string' = FALSE
    /\ in_multi_comment' = FALSE
    /\ process_as_code' = FALSE
    /\ converted_lines' = <<>>
    /\ UNCHANGED <<source_code, source_language, raised, indent_level, dycco_sections>>
    /\ UNCHANGED <<dest_vars, later_vars>>

\* The first loop without its case 3 (lines 249-255): a block comment that
\* closes on its own line is taken as one that opens.
normalize_without_case3(line, in_multi) ==
    LET stripped_line == strip(line)
        ms == multi_comment_start
        me == multi_comment_end
        cs == single_line_comment_symbol
    IN  IF startswith(stripped_line, ms) /\ ~in_multi
        THEN [line |-> join_space(cs, removeprefix(stripped_line, ms)), in_multi |-> TRUE]
        ELSE IF in_multi /\ ~endswith(stripped_line, me)
        THEN [line |-> join_space(cs, stripped_line), in_multi |-> TRUE]
        ELSE IF in_multi /\ endswith(stripped_line, me)
        THEN [line |-> join_space(cs, removesuffix(stripped_line, me)), in_multi |-> FALSE]
        ELSE [line |-> line, in_multi |-> in_multi]

\* The result of one pass of the first loop (lines 233-282) on `line`:
\* the converted line and the new in_multi_comment.
normalize(line, in_multi) ==
    LET stripped_line == strip(line)
        ms == multi_comment_start
        me == multi_comment_end
        cs == single_line_comment_symbol
    IN  IF startswith(stripped_line, ms) /\ endswith(stripped_line, me)
        THEN [line |-> join_space(cs, removeprefix(removesuffix(stripped_line, me), ms)),
              in_multi |-> in_multi]
        ELSE IF startswith(stripped_line, ms) /\ ~in_multi
        THEN [line |-> join_space(cs, removeprefix(stripped_line, ms)), in_multi |-> TRUE]
        ELSE IF in_multi /\ ~endswith(stripped_line, me)
        THEN [line |-> join_space(cs, stripped_line), in_multi |-> TRUE]
        ELSE IF in_multi /\ endswith(stripped_line, me)
        THEN [line |-> join_space(cs, removesuffix(stripped_line, me)), in_multi |-> FALSE]
        ELSE [line |-> line, in_multi |-> in_multi]

\* One pass of the first loop. str.startswith(None) raises TypeError.
NormalizeLine ==
    /\ pc = "normalize"
    /\ IF multi_comment_start = None \/ multi_comment_end = None
       THEN /\ raised' = "TypeError"
            /\ pc' = "raised"
            /\ UNCHANGED <<converted_lines, in_multi_comment, i>>
       ELSE LET r == normalize(lines[i], in_multi_comment)
            IN  /\ converted_lines' = Append(converted_lines, r.line)
                /\ in_multi_comment' = r.in_multi
                /\ i' = IF i = Len(lines) THEN 1 ELSE i + 1
                /\ pc' = IF i = Len(lines) THEN "split" ELSE "normalize"
                /\ UNCHANGED raised
    /\ UNCHANGED <<source_code, source_language, lines, multi_line, multi_string,
                   process_as_code, indent_level, has_code, docs_text, code_text, sections,
                   dycco_sections>>
    /\ UNCHANGED <<dest_vars, later_vars>>

\* The condition of lines 287-289: a delimiter at the start or at the end of
\* the line.
delimiter_found(line) ==
    /\ truthy(multi_comment_start)
    /\ truthy(multi_comment_end)
    /\ \E delim \in {multi_comment_start, multi_comment_end} :
          startswith(lstrip(line), delim) \/ endswith(rstrip(line), delim)

\* Lines 290-293: multi_line after the toggle and its correction.
toggled(line) ==
    LET flipped == ~multi_line
    IN  IF /\ flipped
           /\ endswith(strip(line), multi_comment_end)
           /\ Len(strip(line)) > Len(multi_comment_end)
        THEN FALSE
        ELSE flipped

\* The condition of line 295 without its test of multi_line.
as_code_condition_any_multi_line(line, ml) ==
    ~startswith(strip(line), multi_comment_start) \/ multi_string

\* Line 295: not line.strip().startswith(multi_comment_start) and not multi_line
\*           or multi_string
as_code_condition(line, ml) ==
    (~startswith(strip(line), multi_comment_start) /\ ~ml) \/ multi_string

\* Lines 334-336 with blank lines left out of the code.
append_code_skip_blank(pac, hc, code, line) ==
    IF pac /\ strip(line) # <<>>
    THEN [has_code |-> TRUE, code_text |-> code \o line \o <<NL>>]
    ELSE [has_code |-> hc, code_text |-> code]

\* Lines 334-336, reading the process_as_code value `pac`: what has_code and
\* code_text become when `line` is the loop's line at that point.
append_code(pac, hc, code, line) ==
    IF pac THEN [has_code |-> TRUE, code_text |-> code \o line \o <<NL>>]
    ELSE [has_code |-> hc, code_text |-> code]

\* One pass of the second loop (lines 284-336).
SplitLine ==
    /\ pc = "split"
    /\ LET line == converted_lines[i]
           last == i = Len(converted_lines)
       IN
       IF delimiter_found(line)
       THEN LET ml == toggled(line)
            IN  IF as_code_condition(line, ml)
                THEN \* lines 297-303
                     LET c == append_code(TRUE, has_code, code_text, line)
                     IN  /\ process_as_code' = TRUE
                         /\ multi_line' = IF multi_string THEN FALSE ELSE ml
                         /\ multi_string' = ~multi_string
                         /\ has_code' = c.has_code
                         /\ code_text' = c.code_text
                         /\ UNCHANGED <<docs_text, indent_level, sections, raised>>
                         /\ pc' = IF last THEN "save" ELSE "split"
                ELSE \* lines 305-316
                     LET stripped == remove_all(remove_all(line, multi_comment_start),
                                                multi_comment_end)
                         docs == docs_text \o strip(stripped) \o <<NL>>
                         flush == has_code /\ strip(docs) # <<>>
                         c == append_code(process_as_code,
                                          IF flush THEN FALSE ELSE has_code,
                                          IF flush THEN last_piece(code_text) ELSE code_text,
                                          stripped)
                     IN  /\ multi_line' = ml
                         /\ indent_level' = leading_whitespace(stripped)
                         /\ sections' = IF flush
                                         THEN save(sections, docs, drop_last(code_text))
                                         ELSE sections
                         /\ docs_text' = IF flush THEN <<>> ELSE docs
                         /\ has_code' = c.has_code
                         /\ code_text' = c.code_text
                         /\ UNCHANGED <<multi_string, process_as_code, raised>>
                         /\ pc' = IF last THEN "save" ELSE "split"
       ELSE IF multi_line
       THEN \* lines 318-323
            IF indent_level = Unbound
            THEN /\ raised' = "UnboundLocalError"
                 /\ pc' = "raised"
                 /\ UNCHANGED <<multi_line, multi_string, process_as_code, indent_level,
                                has_code, docs_text, code_text, sections, dycco_sections>>
            ELSE LET c == append_code(process_as_code, has_code, code_text, line)
                 IN  /\ docs_text' = IF match_spaces(indent_level, line)
                                      THEN docs_text \o SubSeq(line, Len(indent_level) + 1, Len(line))
                                                     \o <<NL>>
                                      ELSE docs_text \o line \o <<NL>>
                     /\ has_code' = c.has_code
                     /\ code_text' = c.code_text
                     /\ UNCHANGED <<multi_line, multi_string, process_as_code, indent_level,
                                    sections, raised>>
                     /\ pc' = IF last THEN "save" ELSE "split"
       ELSE IF comment_matcher_match(single_line_comment_symbol, line)
       THEN \* lines 325-330
            /\ sections' = IF has_code THEN save(sections, docs_text, code_text) ELSE sections
            /\ docs_text' = (IF has_code THEN <<>> ELSE docs_text)
                               \o comment_matcher_sub(single_line_comment_symbol, line) \o <<NL>>
            /\ code_text' = IF has_code THEN <<>> ELSE code_text
            /\ has_code' = FALSE
            /\ process_as_code' = FALSE
            /\ UNCHANGED <<multi_line, multi_string, indent_level, raised>>
            /\ pc' = IF last THEN "save" ELSE "split"
       ELSE \* lines 331-336
            LET c == append_code(TRUE, has_code, code_text, line)
            IN  /\ process_as_code' = TRUE
                /\ has_code' = c.has_code
                /\ code_text' = c.code_text
                /\ UNCHANGED <<multi_line, multi_string, indent_level, docs_text, sections,
                               raised>>
                /\ pc' = IF last THEN "save" ELSE "split"
    /\ i' = IF pc' = "split" THEN i + 1 ELSE i
    /\ UNCHANGED <<source_code, source_language, lines, converted_lines, in_multi_comment,
                   dycco_sections>>
    /\ UNCHANGED <<dest_vars, later_vars>>

\* Lines 338-339: the last save, and the return.
ParseReturn ==
    /\ pc = "save"
    /\ sections' = save(sections, docs_text, code_text)
    /\ pc' = "done"
    /\ UNCHANGED <<source_code, source_language, raised, lines, converted_lines, i,
                   in_multi_comment, multi_line, multi_string, process_as_code,
                   indent_level, has_code, docs_text, code_text, dycco_sections>>
    /\ UNCHANGED <<dest_vars, later_vars>>

\* filter(None, list): the entries that are neither None nor empty.
filter_none(list) == SelectSeq(list, LAMBDA e : e # None /\ e # <<>>)

\* Lines 217-220: the two texts of one dycco entry.
python_docs_text(value) == join(<<NL>>, filter_none(value.docs))

python_code_text(value) ==
    removeprefix(removeprefix(join(<<NL>>, filter_none(value.code)), TRIPLE_QUOTE),
                 <<"'", "'", "'">>)

\* Lines 215-221: the entries in the order of sorted(dycco_sections.items()).
RECURSIVE python_sections(_, _, _)
python_sections(d, keys, secs) ==
    IF keys = {} THEN secs
    ELSE LET key == CHOOSE k \in keys : \A j \in keys : k <= j
         IN  python_sections(d, keys \ {key},
                             save(secs, python_docs_text(d[key]), python_code_text(d[key])))

\* What dycco's parse may return: a dict from line numbers to the docs and
\* code lists of a section, whose entries are strings or None.
DyccoLists ==
    {<<>>, <<None>>, <<<<"d">>>>, <<<<"d">>, <<>>, <<"e">>>>,
     <<TRIPLE_QUOTE \o <<"s">>, None>>}

DyccoResults ==
    UNION {[keys -> [docs : DyccoLists, code : DyccoLists]] : keys \in SUBSET {1, 2}}

\* Lines 197-203 and 212-221, for python: dycco parses the text (or rejects
\* it with SyntaxError) and its sections are saved in key order.
ParsePython ==
    /\ pc = "parse"
    /\ source_language.name = "python"
    /\ lines' = split_nl(source_code)
    /\ \/ \E d \in DyccoResults :
             /\ dycco_sections' = d
             /\ sections' = python_sections(d, DOMAIN d, <<>>)
             /\ pc' = "done"
             /\ raised' = raised
       \/ /\ raised' = "SyntaxError"
          /\ pc' = "raised"
          /\ UNCHANGED <<sections, dycco_sections>>
    /\ UNCHANGED <<source_code, source_language, converted_lines, i, in_multi_comment,
                   multi_line, multi_string, process_as_code, indent_level, has_code,
                   docs_text, code_text>>
    /\ UNCHANGED <<dest_vars, later_vars>>

\* ------------------------------------------------------------------------
\* The inputs.
\* ------------------------------------------------------------------------

X == <<"x">>
SP == <<" ">>

\* The line shapes of a language with the comment symbol cs and the block
\* delimiters ms and me (None when the language has none).
LineShapes(cs, ms, me) ==
    {<<>>, SP, X, SP \o SP \o X,
     <<"#", "!", "x">>,
     cs \o SP \o <<"c">>,
     SP \o cs \o SP \o SP \o <<"d">> \o SP,
     X \o SP \o cs \o SP \o <<"n">>}
    \cup (IF ms = None \/ me = None THEN {}
          ELSE {ms \o SP \o <<"h">> \o SP \o me,
                ms \o SP \o <<"a">>,
                <<"b">> \o SP \o me,
                X \o SP \o ms \o SP \o <<"n">> \o SP \o me,
                cs \o SP \o <<"a">> \o SP \o ms})

LinesOf(l) == LineShapes(l.comment_symbol, get(l, "multistart"), get(l, "multiend"))

\* destination is not running.
DestIdle ==
    /\ filepath = <<>>
    /\ preserve_paths = FALSE
    /\ outdir = <<>>
    /\ replace_dots = FALSE
    /\ extension = <<>>
    /\ dest = <<>>

\* The texts of at most n lines over a set of lines.
Texts(lineset, n) == {join(<<NL>>, ls) : ls \in UNION {[1..k -> lineset] : k \in 1..n}}

InitParse(languages, n) ==
    /\ source_language \in languages
    /\ source_code \in Texts(LinesOf(source_language), n)
    /\ pc = "parse"
    /\ raised = "none"
    /\ lines = <<>>
    /\ converted_lines = <<>>
    /\ i = 1
    /\ in_multi_comment = FALSE
    /\ multi_line = FALSE
    /\ multi_string = FALSE
    /\ process_as_code = FALSE
    /\ indent_level = Unbound
    /\ has_code = FALSE
    /\ docs_text = <<>>
    /\ code_text = <<>>
    /\ sections = <<>>
    /\ dycco_sections = <<>>
    /\ DestIdle
    /\ LaterIdle

\* Every language of the table, and longer texts for C; the python texts are
\* single lines, since the model's dycco answers whatever the text is.
Init ==
    \/ InitParse(Languages \ {supported_languages[".py"]}, MaxLines)
    \/ InitParse({c_lang}, MaxLinesC)
    \/ InitParse({supported_languages[".py"]}, 1)

Next == ParseEntry \/ ParsePython \/ NormalizeLine \/ SplitLine \/ ParseReturn

Spec == Init /\ [][Next]_vars

\* ------------------------------------------------------------------------
\* Properties of parse.
\* ------------------------------------------------------------------------

Generic == source_language.name # "python"

HasBlockDelimiters == multi_comment_start # None /\ multi_comment_end # None

Returned == pc = "done"

Ended == pc \in {"done", "raised"}

\* The lines of the input text as parse sees them.
InputLines == split_nl(source_code)

\* C1: every emitted section is a record with exactly the keys docs_text and
\* code_text, and at least one of the two texts is not empty.
C1_SectionsWellFormed ==
    \A k \in 1..Len(sections) :
        /\ DOMAIN sections[k] = {"docs_text", "code_text"}
        /\ sections[k].docs_text # <<>> \/ sections[k].code_text # <<>>

\* C1 witness: parse has returned two sections, one with code only and one
\* with documentation only.
C1_Witness ==
    /\ Generic
    /\ Returned
    /\ Len(sections) = 2
    /\ sections[1].docs_text = <<>> /\ sections[1].code_text # <<>>
    /\ sections[2].docs_text # <<>> /\ sections[2].code_text = <<>>

\* C2: on the generic path parse never raises, whatever the text and whatever
\* the language, those without block delimiters included.
C2_GenericNeverRaises == Generic => raised = "none"

NonBlank(line) == strip(line) # <<>>

\* Line k of the input is a comment: the first loop left or made it a line
\* that starts with the single-line comment symbol.
IsCommentLine(k) == comment_matcher_match(single_line_comment_symbol, converted_lines[k])

\* The code lines of the input, in order (blank lines aside).
RECURSIVE CodeLinesFrom(_)
CodeLinesFrom(k) ==
    IF k > Len(lines) THEN <<>>
    ELSE (IF ~IsCommentLine(k) /\ NonBlank(lines[k]) THEN <<lines[k]>> ELSE <<>>)
         \o CodeLinesFrom(k + 1)

\* The lines of the code_text of the sections from the k-th on, in order
\* (blank lines aside).
RECURSIVE EmittedCodeLinesFrom(_)
EmittedCodeLinesFrom(k) ==
    IF k > Len(sections) THEN <<>>
    ELSE SelectSeq(split_nl(sections[k].code_text), NonBlank) \o EmittedCodeLinesFrom(k + 1)

\* C3: the code_text of the emitted sections, in order, is the input's code
\* lines, each once, unmodified and in their order, and nothing else.
C3_CodeRoundTrip ==
    (Generic /\ Returned) => EmittedCodeLinesFrom(1) = CodeLinesFrom(1)

\* A line that begins with code and carries a comment after it.
IsTrailingCommentLine(line) ==
    \/ line = X \o SP \o single_line_comment_symbol \o SP \o <<"n">>
    \/ /\ HasBlockDelimiters
       /\ line = X \o SP \o multi_comment_start \o SP \o <<"n">> \o SP \o multi_comment_end

\* C4: a line that begins with code and ends in a comment, outside any open
\* block comment (the first loop left it as it was), is appended whole and
\* unchanged to code_text, and docs_text is left alone, whatever came before.
C4_TrailingCommentIsCode ==
    [][(/\ pc = "split"
        /\ IsTrailingCommentLine(lines[i])
        /\ converted_lines[i] = lines[i])
       => (/\ code_text' = code_text \o lines[i] \o <<NL>>
           /\ docs_text' = docs_text)]_vars

\* A full-line single-line comment that is neither an interpreter line nor
\* touches a block delimiter.
IsPlainComment(line) ==
    /\ comment_matcher_match(single_line_comment_symbol, line)
    /\ ~startswith(line, <<"#", "!">>)
    /\ HasBlockDelimiters =>
          \A delim \in {multi_comment_start, multi_comment_end} :
              ~startswith(strip(line), delim) /\ ~endswith(strip(line), delim)

\* A line of code: not blank, not a comment, no block delimiter at its start
\* and no block-start delimiter at its end.
IsPlainCode(line) ==
    /\ NonBlank(line)
    /\ ~comment_matcher_match(single_line_comment_symbol, line)
    /\ HasBlockDelimiters =>
          /\ ~startswith(strip(line), multi_comment_start)
          /\ ~startswith(strip(line), multi_comment_end)
          /\ ~endswith(strip(line), multi_comment_start) \/ multi_comment_start = multi_comment_end

\* The input is a full-line comment followed by one line of code, in a
\* language whose comment symbol is #.
HashCommentThenCode ==
    /\ Generic
    /\ single_line_comment_symbol = HASH
    /\ Len(InputLines) = 2
    /\ IsPlainComment(InputLines[1])
    /\ IsPlainCode(InputLines[2])

\* What follows the # of a comment line, less one whitespace character
\* right after the #.
TextAfterHash(line) ==
    LET rest == Tail(lstrip(line))
    IN  IF rest # <<>> /\ Head(rest) \in Whitespace THEN Tail(rest) ELSE rest

\* C5 as claimed (here for the languages that define block delimiters): such
\* an input gives exactly one section, whose docs_text is the comment's
\* trimmed text and whose code_text is the code line and a newline.
C5_Original ==
    (Ended /\ HashCommentThenCode /\ HasBlockDelimiters) =>
        /\ Returned
        /\ sections = <<[docs_text |-> strip(TextAfterHash(InputLines[1])),
                         code_text |-> InputLines[2] \o <<NL>>]>>

\* C5 amended: with block delimiters defined, such an input gives exactly one
\* section, whose docs_text is the comment less its leading whitespace, the #
\* and one whitespace character after it, and a newline, and whose code_text is
\* the code line and a newline; without block delimiters parse raises TypeError.
C5_CommentThenCode ==
    (Ended /\ HashCommentThenCode) =>
        IF HasBlockDelimiters
        THEN /\ Returned
             /\ sections = <<[docs_text |-> TextAfterHash(InputLines[1]) \o <<NL>>,
                              code_text |-> InputLines[2] \o <<NL>>]>>
        ELSE raised = "TypeError"

\* C5 witness: a comment with blanks around its text, then code, has been
\* parsed into one section.
C5_Witness ==
    /\ Returned
    /\ HashCommentThenCode
    /\ InputLines[1] = SP \o HASH \o SP \o SP \o <<"d">> \o SP
    /\ Len(sections) = 1
    /\ sections[1].docs_text = <<" ", "d", " ", NL>>

\* The language's block delimiters are /* and */.
SlashStarLanguage ==
    Generic /\ multi_comment_start = SLASH_STAR /\ multi_comment_end = STAR_SLASH

\* The input is a one-line block comment followed by a line of code (and
\* possibly the empty last line of a text that ends in a newline).
OneLineBlockThenCode ==
    /\ SlashStarLanguage
    /\ Len(InputLines) \in {2, 3}
    /\ InputLines[1] = SLASH_STAR \o SP \o <<"h">> \o SP \o STAR_SLASH
    /\ InputLines[2] = X
    /\ Len(InputLines) = 3 => InputLines[3] = <<>>

\* C6: a block comment that opens and closes on one line is normalized to a
\* single-line comment line holding the inner text, its documentation is the
\* inner text without the delimiters, and the line after it is code only.
C6_OneLineBlockComment ==
    OneLineBlockThenCode =>
        /\ Len(converted_lines) >= 1 =>
              converted_lines[1] = single_line_comment_symbol \o SP \o <<" ", "h", " ">>
        /\ (pc = "split" /\ i = 2) => (docs_text = <<" ", "h", " ", NL>> /\ code_text = <<>>)
        /\ Returned =>
              /\ Len(sections) = 1
              /\ sections[1].docs_text = <<" ", "h", " ", NL>>
              /\ sections[1].code_text =
                    X \o <<NL>> \o (IF Len(InputLines) = 3 THEN <<NL>> ELSE <<>>)

\* C6 witness: the text "/* h */\nx\n" has been parsed.
C6_Witness ==
    /\ Returned
    /\ OneLineBlockThenCode
    /\ Len(InputLines) = 3
    /\ sections[1].code_text = <<"x", NL, NL>>

\* Every line of the input is blank.
BlankInput == \A k \in 1..Len(InputLines) : ~NonBlank(InputLines[k])

\* C7 as claimed (here for the generic path and the languages that define
\* block delimiters): a text of blank lines only gives no section.
C7_Original ==
    (Ended /\ Generic /\ HasBlockDelimiters /\ BlankInput) => (Returned /\ sections = <<>>)

\* C7 amended: on the generic path a text of blank lines only gives, with
\* block delimiters defined, exactly one section, whose docs_text is empty and
\* whose code_text is every line followed by a newline; without block
\* delimiters parse raises TypeError.
C7_BlankInput ==
    (Ended /\ Generic /\ BlankInput) =>
        IF HasBlockDelimiters
        THEN /\ Returned
             /\ sections = <<[docs_text |-> <<>>,
                              code_text |-> join(<<NL>>, InputLines) \o <<NL>>]>>
        ELSE raised = "TypeError"

\* C7 witness: a text of three blank lines, one of them of blanks, has been
\* parsed into one section.
C7_Witness ==
    /\ Returned
    /\ Generic
    /\ BlankInput
    /\ Len(InputLines) = 3
    /\ InputLines[2] = SP
    /\ Len(sections) = 1

\* ------------------------------------------------------------------------
\* pycco/main.py: destination, with the os.path functions it calls (posix).
\* ------------------------------------------------------------------------

\* Longest file path, in characters.
MaxPath == 5

SEP == "/"

\* s.rfind(c) + 1: the position after the last c, 0 when there is none.
after_last(s, c) ==
    IF \A k \in 1..Len(s) : s[k] # c THEN 0
    ELSE CHOOSE k \in 1..Len(s) : s[k] = c /\ \A j \in (k + 1)..Len(s) : s[j] # c

RECURSIVE rstrip_sep(_)
rstrip_sep(s) ==
    IF s # <<>> /\ s[Len(s)] = SEP THEN rstrip_sep(SubSeq(s, 1, Len(s) - 1)) ELSE s

\* posixpath.split(p): the head loses its trailing slashes unless it is made
\* of slashes only.
path_split(p) ==
    LET k == after_last(p, SEP)
        head == SubSeq(p, 1, k)
        tail == SubSeq(p, k + 1, Len(p))
    IN  [head |-> IF head # <<>> /\ (\E j \in 1..Len(head) : head[j] # SEP)
                  THEN rstrip_sep(head) ELSE head,
         tail |-> tail]

\* posixpath.splitext(p): the extension starts at the last dot of the last
\* component, unless only dots come before it in that component.
splitext(p) ==
    LET sepIndex == after_last(p, SEP)
        dotIndex == after_last(p, ".")
    IN  IF /\ dotIndex > sepIndex
           /\ \E k \in (sepIndex + 1)..(dotIndex - 1) : p[k] # "."
        THEN [root |-> SubSeq(p, 1, dotIndex - 1), ext |-> SubSeq(p, dotIndex, Len(p))]
        ELSE [root |-> p, ext |-> <<>>]

\* posixpath.join(a, b)
path_join(a, b) ==
    IF startswith(b, <<SEP>>) THEN b
    ELSE IF a = <<>> \/ endswith(a, <<SEP>>) THEN a \o b
    ELSE a \o <<SEP>> \o b

\* re.sub(r"\.[^.]*$", "", filename): the last dot and what follows it go.
strip_extension(filename) ==
    LET k == after_last(filename, ".")
    IN  IF k = 0 THEN filename ELSE SubSeq(filename, 1, k - 1)

\* name.replace('.', '_')
dots_to_underscores(name) == [k \in 1..Len(name) |-> IF name[k] = "." THEN "_" ELSE name[k]]

\* Lines 546-564: the path before outdir is forced to its front.
joined_destination(path, preserve, out, underline, ext) ==
    LET parts == path_split(path)
        stem == strip_extension(parts.tail)
        name == IF underline
                THEN dots_to_underscores(stem \o splitext(path).ext)
                ELSE stem
        kept == IF preserve THEN path_join(parts.head, name) ELSE name
    IN  path_join(out, kept \o <<".">> \o ext)

\* destination without lines 568-569: the joined path as it is.
destination_unforced(path, preserve, out, underline, ext) ==
    joined_destination(path, preserve, out, underline, ext)

\* destination without lines 558-561: the original extension is never put back.
destination_no_underline(path, preserve, out, underline, ext) ==
    LET d == joined_destination(path, preserve, out, FALSE, ext)
    IN  IF ~startswith(d, out) THEN out \o <<SEP>> \o d ELSE d

\* destination(filepath, preserve_paths, outdir, replace_dots, extension), for
\* a non-empty outdir.
destination(path, preserve, out, underline, ext) ==
    LET d == joined_destination(path, preserve, out, underline, ext)
    IN  IF ~startswith(d, out) THEN out \o <<SEP>> \o d ELSE d

\* The characters of the file paths.
PathChars == {SEP, ".", "a", "d"}

Paths == UNION {[1..k -> PathChars] : k \in 0..MaxPath}

Outdirs == {<<>>, <<"d">>, <<SEP, "d">>, <<"d", SEP>>, <<".">>, <<SEP>>}

Extensions == {<<"h", "t", "m", "l">>, <<"m", "d">>, <<"a", "d", "o", "c">>}

\* parse is not running.
ParseIdle ==
    /\ source_code = <<>>
    /\ source_language = c_lang
    /\ raised = "none"
    /\ lines = <<>>
    /\ converted_lines = <<>>
    /\ i = 1
    /\ in_multi_comment = FALSE
    /\ multi_line = FALSE
    /\ multi_string = FALSE
    /\ process_as_code = FALSE
    /\ indent_level = Unbound
    /\ has_code = FALSE
    /\ docs_text = <<>>
    /\ code_text = <<>>
    /\ sections = <<>>
    /\ dycco_sections = <<>>

InitDest ==
    /\ pc = "destination"
    /\ filepath \in Paths
    /\ preserve_paths \in BOOLEAN
    /\ outdir \in Outdirs
    /\ replace_dots \in BOOLEAN
    /\ extension \in Extensions
    /\ dest = <<>>
    /\ ParseIdle
    /\ LaterIdle

\* Lines 547-548: no outdir.
DestinationRaises ==
    /\ pc = "destination"
    /\ outdir = <<>>
    /\ raised' = "TypeError"
    /\ pc' = "raised"
    /\ UNCHANGED <<source_code, source_language, lines, converted_lines, i,
                   in_multi_comment, multi_line, multi_string, process_as_code,
                   indent_level, has_code, docs_text, code_text, sections, dycco_sections>>
    /\ UNCHANGED <<dest_vars, later_vars>>

\* Lines 546-570.
Destination ==
    /\ pc = "destination"
    /\ outdir # <<>>
    /\ dest' = destination(filepath, preserve_paths, outdir, replace_dots, extension)
    /\ pc' = "done"
    /\ UNCHANGED <<filepath, preserve_paths, outdir, replace_dots, extension>>
    /\ UNCHANGED <<raised, parse_vars, later_vars>>

NextDest == Destination \/ DestinationRaises

DestSpec == InitDest /\ [][NextDest]_vars

\* ------------------------------------------------------------------------
\* Properties of destination.
\* ------------------------------------------------------------------------

DestinationReturned == pc = "done" /\ outdir # <<>>

\* C8: the path destination returns starts with outdir and ends with a dot
\* and the requested extension.
C8_DestinationShape ==
    DestinationReturned =>
        /\ startswith(dest, outdir)
        /\ endswith(dest, <<".">> \o extension)

\* C8 witness: destination has returned for an absolute file path with
\* preserve_paths on and a relative outdir, where joining alone would have
\* dropped outdir.
C8_Witness ==
    /\ DestinationReturned
    /\ preserve_paths
    /\ outdir = <<"d">>
    /\ startswith(filepath, <<SEP, "a">>)
    /\ startswith(dest, <<"d", SEP, SEP, "a">>)

\* The components of a path: the pieces between slashes, without the empty
\* ones and the "." ones.
RECURSIVE Components(_)
Components(p) ==
    IF p = <<>> THEN <<>>
    ELSE LET k == IF \A j \in 1..Len(p) : p[j] # SEP THEN Len(p) + 1
                  ELSE CHOOSE j \in 1..Len(p) : p[j] = SEP /\ \A h \in 1..(j - 1) : p[h] # SEP
             piece == SubSeq(p, 1, k - 1)
             rest == Components(SubSeq(p, k + 1, Len(p)))
         IN  IF piece = <<>> \/ piece = <<".">> THEN rest ELSE <<piece>> \o rest

\* The components with each ".." resolved against the component before it;
\* a ".." with nothing before it stays (it climbs out of the start).
RECURSIVE Resolve(_, _)
Resolve(stack, comps) ==
    IF comps = <<>> THEN stack
    ELSE IF /\ Head(comps) = <<".", ".">>
            /\ stack # <<>>
            /\ stack[Len(stack)] # <<".", ".">>
    THEN Resolve(SubSeq(stack, 1, Len(stack) - 1), Tail(comps))
    ELSE Resolve(Append(stack, Head(comps)), Tail(comps))

\* The place a path denotes.
Place(p) == Resolve(<<>>, Components(p))

\* The place of path p is the directory d or lies below it.
Inside(p, d) ==
    /\ startswith(p, <<SEP>>) = startswith(d, <<SEP>>)
    /\ startswith(Place(p), Place(d))

\* C9: the path destination returns denotes a place inside outdir.
C9_DestinationInsideOutdir == DestinationReturned => Inside(dest, outdir)

\* The extensions of the files compared with filepath.
OtherExtensions == {<<>>, <<".">>, <<".", "a">>, <<".", "d">>, <<".", "a", "d">>}

\* The files of filepath's directory whose name is filepath's with another
\* final extension (as os.path.splitext splits a name).
Siblings ==
    {f \in {splitext(filepath).root \o e : e \in OtherExtensions} :
        /\ splitext(f).root = splitext(filepath).root
        /\ f # filepath}

\* The files of filepath's directory whose name, like filepath's, has a
\* non-empty final extension (a last dot and what follows it, which line 550
\* strips) and is the same as filepath's before it.
SiblingsByLastDot ==
    LET here == path_split(filepath)
    IN  {f \in {path_join(here.head, strip_extension(here.tail) \o e) :
                    e \in OtherExtensions \ {<<>>, <<".">>}} :
            /\ after_last(here.tail, ".") \in 1..(Len(here.tail) - 1)
            /\ path_split(f).head = here.head
            /\ f # filepath}

\* C10: in underline mode, two files of one directory whose names differ only
\* in the final extension get different destinations.
C10_UnderlineSeparatesNames ==
    (DestinationReturned /\ replace_dots) =>
        \A f \in SiblingsByLastDot :
            destination(f, preserve_paths, outdir, replace_dots, extension) # dest

\* The same for the names that os.path.splitext gives a final extension or
\* none (a name that starts with its only dot has none there): these do get
\* different destinations.
C10_UnderlineSeparates ==
    (DestinationReturned /\ replace_dots) =>
        \A f \in Siblings :
            destination(f, preserve_paths, outdir, replace_dots, extension) # dest

\* C10 witness: destination has returned for a.d in underline mode, a.a is a
\* sibling, and without underline mode both would get the same path.
C10_Witness ==
    /\ DestinationReturned
    /\ replace_dots
    /\ filepath = <<"a", ".", "d">>
    /\ <<"a", ".", "a">> \in Siblings
    /\ destination(<<"a", ".", "a">>, preserve_paths, outdir, FALSE, extension)
         = destination(filepath, preserve_paths, outdir, FALSE, extension)
    /\ dest = outdir \o <<SEP, "a", "_", "d", ".">> \o extension

\* ------------------------------------------------------------------------
\* pycco/main.py: get_language(source, code, language_name)
\* ------------------------------------------------------------------------

\* Longest source path given to get_language, in characters.
MaxSource == 4

\* A str argument, kept apart from None.
Str(text) == <<"str", text>>

\* The keys of supported_languages in the order of the dict literal, which is
\* the order supported_languages.values() iterates in.
table_order ==
    <<".coffee", ".pl", ".sql", ".sh", ".c", ".h", ".cl", ".css", ".cpp", ".js", ".rb",
      ".py", ".pyx", ".scm", ".lua", ".erl", ".tcl", ".hs", ".r", ".R", ".jl", ".m", ".do">>

\* The keys of supported_languages, as the characters they are made of.
extension_chars ==
    [ext \in DOMAIN supported_languages |->
        CASE ext = ".coffee" -> <<".", "c", "o", "f", "f", "e", "e">>
          [] ext = ".pl"  -> <<".", "p", "l">>
          [] ext = ".sql" -> <<".", "s", "q", "l">>
          [] ext = ".sh"  -> <<".", "s", "h">>
          [] ext = ".c"   -> <<".", "c">>
          [] ext = ".h"   -> <<".", "h">>
          [] ext = ".cl"  -> <<".", "c", "l">>
          [] ext = ".css" -> <<".", "c", "s", "s">>
          [] ext = ".cpp" -> <<".", "c", "p", "p">>
          [] ext = ".js"  -> <<".", "j", "s">>
          [] ext = ".rb"  -> <<".", "r", "b">>
          [] ext = ".py"  -> <<".", "p", "y">>
          [] ext = ".pyx" -> <<".", "p", "y", "x">>
          [] ext = ".scm" -> <<".", "s", "c", "m">>
          [] ext = ".lua" -> <<".", "l", "u", "a">>
          [] ext = ".erl" -> <<".", "e", "r", "l">>
          [] ext = ".tcl" -> <<".", "t", "c", "l">>
          [] ext = ".hs"  -> <<".", "h", "s">>
          [] ext = ".r"   -> <<".", "r">>
          [] ext = ".R"   -> <<".", "R">>
          [] ext = ".jl"  -> <<".", "j", "l">>
          [] ext = ".m"   -> <<".", "m">>
          [] ext = ".do"  -> <<".", "d", "o">>]

\* Nothing returned (yet).
NoLanguage == [name |-> "(nothing)"]

\* Lines 517-519 and 530-532: the first definition, in table order, whose
\* name is `name`; NoLanguage when the loop ends without one.
first_named(name) ==
    LET hits == {k \in 1..Len(table_order) : supported_languages[table_order[k]].name = name}
    IN  IF hits = {} THEN NoLanguage
        ELSE supported_languages[table_order[CHOOSE k \in hits : \A j \in hits : k <= j]]

\* re.match(r'.*(\..+)', name) with the first dot of the name taken for the
\* group's start.
extension_match_first_dot(name) ==
    LET dots == {k \in 1..(Len(name) - 1) : name[k] = "."}
    IN  IF dots = {} THEN None
        ELSE SubSeq(name, CHOOSE k \in dots : \A j \in dots : k <= j, Len(name))

\* re.match(r'.*(\..+)', name).group(1), None when there is no match: `.*` is
\* greedy, so the group starts at the last dot that a character follows; `.`
\* matches no newline, so nothing before that dot is one and the group stops
\* short of the first newline after it.
extension_match(name) ==
    LET dots == {k \in 1..(Len(name) - 1) :
                    /\ name[k] = "."
                    /\ name[k + 1] # NL
                    /\ \A j \in 1..(k - 1) : name[j] # NL}
    IN  IF dots = {} THEN None
        ELSE LET k == CHOOSE d \in dots : \A j \in dots : j <= d
                 stops == {j \in (k + 1)..Len(name) : name[j] = NL}
                 last == IF stops = {} THEN Len(name)
                         ELSE (CHOOSE j \in stops : \A h \in stops : j <= h) - 1
             IN  SubSeq(name, k, last)

\* m.group(1) in supported_languages, and supported_languages[m.group(1)].
in_table(group) == \E ext \in DOMAIN supported_languages : extension_chars[ext] = group

table_entry(group) ==
    supported_languages[CHOOSE ext \in DOMAIN supported_languages : extension_chars[ext] = group]

UnknownForced == "Unknown forced language: "
CantFigure == "Can't figure out the language! "

\* What lexers.guess_lexer(code) did: the lower-cased name of the lexer it
\* returned, or ClassNotFound (pygments' subclass of ValueError) when it raised.
ClassNotFound == "ClassNotFound"

\* Lines 523-538: the extension of the file name, then the guess.
by_extension_or_guess(src, guess) ==
    LET group == IF truthy(src) THEN extension_match(path_split(src).tail) ELSE None
    IN  IF group # None /\ in_table(group)
        THEN [language |-> table_entry(group), raised |-> "none", message |-> "",
              guessed |-> ""]
        ELSE IF guess # ClassNotFound /\ first_named(guess) # NoLanguage
        THEN [language |-> first_named(guess), raised |-> "none", message |-> "",
              guessed |-> guess]
        ELSE [language |-> NoLanguage, raised |-> "ValueError", message |-> CantFigure,
              guessed |-> guess]

\* get_language with a forced name that is not in the table going on to the
\* extension and the guess.
get_language_fallback(src, name, guess) ==
    IF name # None /\ first_named(name[2]) # NoLanguage
    THEN [language |-> first_named(name[2]), raised |-> "none", message |-> "",
          guessed |-> ""]
    ELSE by_extension_or_guess(src, guess)

\* get_language(source, code, language_name), lines 516-538, where `guess` is
\* what lexers.guess_lexer(code) does if it is called: the definition
\* returned, the exception raised and its message, and the guess if it was
\* asked for.
get_language(src, name, guess) ==
    IF name # None
    THEN IF first_named(name[2]) # NoLanguage
         THEN [language |-> first_named(name[2]), raised |-> "none", message |-> "",
               guessed |-> ""]
         ELSE [language |-> NoLanguage, raised |-> "ValueError",
               message |-> UnknownForced, guessed |-> ""]
    ELSE by_extension_or_guess(src, guess)

\* The characters of the source paths.
SourceChars == {SEP, ".", "c", "p", "y"}

\* The source argument: None, or a path of at most MaxSource characters.
Sources == {None} \cup UNION {[1..k -> SourceChars] : k \in 0..MaxSource}

\* The language_name argument: None, names of the table and names that are
\* not in it.
LanguageNames ==
    {None, Str("python"), Str("c"), Str("r"), Str("non-existent"), Str("")}

\* The outcomes of lexers.guess_lexer(code), over the codes there are: lexer
\* names that are names of the table, lexer names that are not, and failure.
GuessOutcomes == {"python", "c", "c++", "text only", ClassNotFound}

InitGetLanguage ==
    /\ pc = "get_language"
    /\ raised = "none"
    /\ source \in Sources
    /\ language_name \in LanguageNames
    /\ guessed = ""
    /\ language = NoLanguage
    /\ message = ""
    /\ ParseIdle
    /\ DestIdle
    /\ ProcessIdle
    /\ PreprocessIdle
    /\ LangIdle
    /\ RestIdle

\* get_language returns a definition.
GetLanguageReturns ==
    /\ pc = "get_language"
    /\ \E guess \in GuessOutcomes :
          LET r == get_language(source, language_name, guess)
          IN  /\ r.raised = "none"
              /\ language' = r.language
              /\ guessed' = r.guessed
    /\ pc' = "done"
    /\ UNCHANGED <<source, language_name, message, raised>>
    /\ UNCHANGED <<parse_vars, dest_vars, process_vars, preprocess_vars, lang_vars, rest_vars>>

\* get_language raises ValueError.
GetLanguageRaises ==
    /\ pc = "get_language"
    /\ \E guess \in GuessOutcomes :
          LET r == get_language(source, language_name, guess)
          IN  /\ r.raised # "none"
              /\ raised' = r.raised
              /\ message' = r.message
              /\ guessed' = r.guessed
    /\ pc' = "raised"
    /\ UNCHANGED <<source, language_name, language>>
    /\ UNCHANGED <<parse_vars, dest_vars, process_vars, preprocess_vars, lang_vars, rest_vars>>

NextGetLanguage == GetLanguageReturns \/ GetLanguageRaises

GetLanguageSpec == InitGetLanguage /\ [][NextGetLanguage]_vars

\* ------------------------------------------------------------------------
\* Properties of get_language.
\* ------------------------------------------------------------------------

\* The names of the definitions of the table.
TableNames == {supported_languages[ext].name : ext \in DOMAIN supported_languages}

\* C11: with a language_name, get_language returns the definition of the
\* table that has that name, whatever the source and the code are; when no
\* definition has it, ValueError is raised, and neither the extension of the
\* source nor the guess from the code is used.
C11_ForcedLanguage ==
    (Ended /\ language_name # None) =>
        /\ guessed = ""
        /\ IF language_name[2] \in TableNames
           THEN /\ pc = "done"
                /\ language \in Languages
                /\ language.name = language_name[2]
           ELSE /\ pc = "raised"
                /\ raised = "ValueError"
                /\ language = NoLanguage

\* C11 witness: a name that is in no definition was forced on a source whose
\* extension is in the table, and ValueError was raised.
C11_Witness ==
    /\ pc = "raised"
    /\ raised = "ValueError"
    /\ language_name = Str("non-existent")
    /\ source = <<"y", ".", "p", "y">>

\* The final extension of a file name: its last dot and what follows it;
\* empty when the name has no dot.
FinalExtension(name) ==
    IF after_last(name, ".") = 0 THEN <<>> ELSE SubSeq(name, after_last(name, "."), Len(name))

\* The file name of a source path: what follows its last slash.
FileName(src) == IF src = None THEN <<>> ELSE SubSeq(src, after_last(src, SEP) + 1, Len(src))

\* C12: without a language_name, the definition of the final extension of the
\* source's file name is returned when the table has that extension, and
\* the guess is not asked for; otherwise the guess is asked for, and when it
\* fails or names no definition of the table, ValueError is raised with the
\* message "Can't figure out the language!".
C12_ResolutionOrder ==
    (Ended /\ language_name = None) =>
        LET ext == FinalExtension(FileName(source))
        IN  IF \E key \in DOMAIN supported_languages : extension_chars[key] = ext
            THEN /\ pc = "done"
                 /\ guessed = ""
                 /\ \E key \in DOMAIN supported_languages :
                       extension_chars[key] = ext /\ language = supported_languages[key]
            ELSE /\ guessed # ""
                 /\ IF guessed \in TableNames
                    THEN pc = "done" /\ language \in Languages /\ language.name = guessed
                    ELSE /\ pc = "raised"
                         /\ raised = "ValueError"
                         /\ message = CantFigure
                         /\ language = NoLanguage

\* C12 witness: no language_name, a file name with two dots whose final
\* extension is C's, and C's definition was returned without a guess.
C12_Witness ==
    /\ pc = "done"
    /\ language_name = None
    /\ source = <<".", "p", ".", "c">>
    /\ language = c_lang
    /\ guessed = ""

\* ------------------------------------------------------------------------
\* pycco/main.py: process(sources, ...)
\* ------------------------------------------------------------------------

\* Longest list of sources given to process.
MaxSources == 3

\* ord(c), for the characters of the source paths.
ord(c) ==
    CASE c = "." -> 46
      [] c = SEP -> 47
      [] c = "_" -> 95
      [] c = "a" -> 97
      [] c = "d" -> 100

\* s < t for two str: the first place they differ at decides, and a proper
\* prefix is smaller.
RECURSIVE str_less(_, _)
str_less(s, t) ==
    IF t = <<>> THEN FALSE
    ELSE IF s = <<>> THEN TRUE
    ELSE IF Head(s) # Head(t) THEN ord(Head(s)) < ord(Head(t))
    ELSE str_less(Tail(s), Tail(t))

\* The list as it was given.
unsorted(list) == list

\* sorted(list): a stable insertion of each item after the items that are not
\* greater.
RECURSIVE sorted(_)
sorted(list) ==
    IF list = <<>> THEN <<>>
    ELSE LET rest == sorted(SubSeq(list, 1, Len(list) - 1))
             item == list[Len(list)]
             before == SelectSeq(rest, LAMBDA e : ~str_less(item, e))
             after == SelectSeq(rest, LAMBDA e : str_less(item, e))
         IN  before \o <<item>> \o after

\* Lines 631-635: the extension of the files process writes.
process_extension(single, ascii) ==
    IF single THEN (IF ascii THEN <<"a", "d", "o", "c">> ELSE <<"m", "d">>)
    ELSE <<"h", "t", "m", "l">>

\* How a call of generate_documentation can end: it returns the bytes to
\* write, or get_language raises ValueError, or decoding the file raises
\* UnicodeDecodeError, or dycco raises SyntaxError, all of which line 665
\* catches, or parse raises the TypeError of a language without block
\* delimiters, which it does not catch.
Caught == {"ValueError", "UnicodeDecodeError", "SyntaxError"}
Outcomes == {"ok", "TypeError"} \cup Caught

\* The source files.
ProcessFiles == {<<"a", ".", "d">>, <<"a">>, <<"d", SEP, "a">>}

\* The option sets process is run with: preserve_paths, underlines,
\* use_ascii, single_file.
ProcessOptions ==
    {[preserve_paths |-> TRUE, underlines |-> FALSE, use_ascii |-> FALSE, single_file |-> FALSE],
     [preserve_paths |-> FALSE, underlines |-> TRUE, use_ascii |-> FALSE, single_file |-> TRUE],
     [preserve_paths |-> TRUE, underlines |-> TRUE, use_ascii |-> TRUE, single_file |-> TRUE]}

InitProcess ==
    /\ pc = "process"
    /\ raised = "none"
    /\ sources_arg \in UNION {[1..k -> ProcessFiles] : k \in 0..MaxSources}
    /\ sources = sources_arg
    /\ skip \in BOOLEAN
    /\ index \in BOOLEAN
    /\ \E o \in ProcessOptions :
          /\ preserve_paths = o.preserve_paths
          /\ replace_dots = o.underlines
          /\ use_ascii = o.use_ascii
          /\ single_file = o.single_file
    /\ outdir \in {<<>>, <<"d">>}
    /\ extension = <<>>
    /\ filepath = <<>>
    /\ dest = <<>>
    /\ generated_files = <<>>
    /\ attempts = <<>>
    /\ indexed = <<>>
    /\ ParseIdle
    /\ GetLanguageIdle
    /\ PreprocessIdle
    /\ LangIdle
    /\ RestIdle

\* Lines 628-646 and 673: the checks and the set-up before the first file.
ProcessEntry ==
    /\ pc = "process"
    /\ IF outdir = <<>>
       THEN /\ raised' = "TypeError"
            /\ pc' = "raised"
            /\ UNCHANGED <<sources, extension>>
       ELSE /\ extension' = process_extension(single_file, use_ascii)
            /\ sources' = sorted(sources_arg)
            /\ pc' = IF sources_arg = <<>> THEN "done" ELSE "next_file"
            /\ UNCHANGED raised
    /\ UNCHANGED <<sources_arg, skip, index, use_ascii, single_file, generated_files,
                   attempts, indexed>>
    /\ UNCHANGED <<filepath, preserve_paths, outdir, replace_dots, dest>>
    /\ UNCHANGED <<parse_vars, get_language_vars, preprocess_vars, lang_vars, rest_vars>>

\* Lines 648-671: one call of next_file, up to its call of itself.
NextFile ==
    /\ pc = "next_file"
    /\ LET s == Head(sources)
           d == destination(s, preserve_paths, outdir, replace_dots, extension)
       IN  /\ sources' = Tail(sources)
           /\ filepath' = s
           /\ dest' = d
           /\ \E outcome \in Outcomes :
                 /\ attempts' = Append(attempts, [source |-> s, outcome |-> outcome])
                 /\ generated_files' = IF outcome = "ok" THEN Append(generated_files, d)
                                       ELSE generated_files
                 /\ IF outcome = "ok" \/ (outcome \in Caught /\ skip)
                    THEN /\ pc' = IF Tail(sources) # <<>> THEN "next_file" ELSE "index"
                         /\ UNCHANGED raised
                    ELSE /\ pc' = "raised"
                         /\ raised' = outcome
    /\ UNCHANGED <<sources_arg, skip, index, use_ascii, single_file, indexed>>
    /\ UNCHANGED <<preserve_paths, outdir, replace_dots, extension>>
    /\ UNCHANGED <<parse_vars, get_language_vars, preprocess_vars, lang_vars, rest_vars>>

\* Lines 675-677: the index of the generated files, when asked for.
ProcessReturn ==
    /\ pc = "index"
    /\ indexed' = IF index THEN generated_files ELSE indexed
    /\ pc' = "done"
    /\ UNCHANGED <<sources_arg, sources, skip, index, use_ascii, single_file,
                   generated_files, attempts, raised>>
    /\ UNCHANGED <<dest_vars, parse_vars, get_language_vars, preprocess_vars, lang_vars, rest_vars>>

NextProcess == ProcessEntry \/ NextFile \/ ProcessReturn

ProcessSpec == InitProcess /\ [][NextProcess]_vars

\* ------------------------------------------------------------------------
\* Properties of process.
\* ------------------------------------------------------------------------

\* The sources attempted so far, in the order of the attempts.
Attempted == [k \in 1..Len(attempts) |-> attempts[k].source]

Occurrences(list, item) == Cardinality({k \in 1..Len(list) : list[k] = item})

\* The destinations of the attempts that ended well, in their order.
RECURSIVE WrittenFrom(_)
WrittenFrom(k) ==
    IF k > Len(attempts) THEN <<>>
    ELSE (IF attempts[k].outcome = "ok"
          THEN <<destination(attempts[k].source, preserve_paths, outdir, replace_dots,
                             extension)>>
          ELSE <<>>) \o WrittenFrom(k + 1)

\* C13: process attempts every source once, in sorted order; with skip, a
\* file that fails with ValueError, UnicodeDecodeError or SyntaxError is
\* passed over and the next file is processed, and the generated files are
\* the destinations of the files written; without skip the first such error
\* reaches the caller and no later file is processed.
C13_ProcessAttempts ==
    (pc \in {"next_file", "index", "done", "raised"} /\ outdir # <<>>) =>
        LET all == Attempted \o sources
        IN  /\ \A f \in ProcessFiles : Occurrences(all, f) = Occurrences(sources_arg, f)
            /\ \A k \in 1..(Len(all) - 1) : ~str_less(all[k + 1], all[k])
            /\ generated_files = WrittenFrom(1)
            /\ \A k \in 1..(Len(attempts) - 1) :
                  attempts[k].outcome = "ok" \/ (skip /\ attempts[k].outcome \in Caught)
            /\ \A k \in 1..Len(attempts) :
                  (attempts[k].outcome \in Caught /\ ~skip) =>
                      /\ k = Len(attempts)
                      /\ pc = "raised"
                      /\ raised = attempts[k].outcome
            /\ (pc = "raised") => attempts[Len(attempts)].outcome = raised
            /\ (pc \in {"index", "done"}) => sources = <<>>
            /\ (skip /\ sources # <<>> /\ attempts # <<>>
                     /\ attempts[Len(attempts)].outcome \in Caught) => pc = "next_file"

\* C13 witness: with skip, three files given out of order were all attempted,
\* the second failed with a caught error and the third was written after it.
C13_Witness ==
    /\ pc = "done"
    /\ skip
    /\ sources_arg = <<<<"d", SEP, "a">>, <<"a", ".", "d">>, <<"a">>>>
    /\ Len(attempts) = 3
    /\ attempts[1].outcome = "ok"
    /\ attempts[2].outcome = "SyntaxError"
    /\ attempts[3].outcome = "ok"
    /\ Len(generated_files) = 2

\* ------------------------------------------------------------------------
\* pycco/main.py: preprocess(comment, preserve_paths, outdir)
\* ------------------------------------------------------------------------

\* Longest comment given to preprocess, in parts.
MaxParts == 3

\* str.lower(), over the letters of the modelled comments.
lower(s) == [k \in 1..Len(s) |-> IF s[k] = "H" THEN "h" ELSE s[k]]

\* s.split(" "): always at least one piece; two spaces in a row give an empty
\* piece.
RECURSIVE split_space(_)
split_space(s) ==
    IF \A k \in 1..Len(s) : s[k] # " " THEN <<s>>
    ELSE LET k == CHOOSE k \in 1..Len(s) : s[k] = " " /\ \A j \in 1..(k - 1) : s[j] # " "
         IN  <<SubSeq(s, 1, k - 1)>> \o split_space(SubSeq(s, k + 1, Len(s)))

\* Lines 360-361.
sanitize_section_name(name) == join(<<"-">>, split_space(strip(lower(name))))

\* The length of the longest prefix of s made of "=" (when eq) or of no "=".
RECURSIVE run_length(_, _)
run_length(s, eq) ==
    IF s # <<>> /\ ((Head(s) = "=") = eq) THEN 1 + run_length(Tail(s), eq) ELSE 0

\* re.sub('=', '#', match.group(1))
hashes(n) == [k \in 1..n |-> "#"]

\* Lines 379-380: the heading that replaces a match with `level` equals
\* signs in group 1 and `name` as group 2.
replace_section_name(level, name) ==
    hashes(level) \o <<" ", "<", "s", "p", "a", "n", " ", "i", "d", "=", "\"">> \o sanitize_section_name(name)
                  \o <<"\"", " ", "h", "r", "e", "f", "=", "\"">> \o sanitize_section_name(name)
                  \o <<"\"", ">">> \o name \o <<"<", "/", "s", "p", "a", "n", ">">>

\* Line 382: re.sub(r'^([=]+)([^=]+)[=]*\s*$', replace_section_name, comment).
\* Without re.MULTILINE the pattern can only match at the start of the
\* comment and has to reach its end: group 1 is every leading equals sign,
\* group 2 the longest run without one (newlines included), and only equals
\* signs and then whitespace may follow. The whole comment is replaced.
section_sub(text) ==
    LET level == run_length(text, TRUE)
        after == SubSeq(text, level + 1, Len(text))
        length == run_length(after, FALSE)
        name == SubSeq(after, 1, length)
        closing == SubSeq(after, length + 1, Len(after))
        rest == SubSeq(closing, run_length(closing, TRUE) + 1, Len(closing))
    IN  IF level >= 1 /\ length >= 1 /\ lstrip(rest) = <<>>
        THEN replace_section_name(level, name)
        ELSE text

\* The character ` (a grave accent), which no TLA+ string can hold.
GRAVE == "grave"

\* The matches of (\[\[(.+?)\]\]) from place k on, whatever stands before them.
RECURSIVE crossref_matches_any(_, _)
crossref_matches_any(text, k) ==
    IF k + 4 > Len(text) THEN <<>>
    ELSE LET ends == {j \in (k + 3)..(Len(text) - 1) :
                         /\ text[j] = "]" /\ text[j + 1] = "]"
                         /\ \A h \in (k + 2)..(j - 1) : text[h] # NL}
         IN  IF text[k] = "[" /\ text[k + 1] = "[" /\ ends # {}
             THEN LET j == CHOOSE e \in ends : \A h \in ends : e <= h
                  IN  <<[from |-> k, to |-> j + 1]>> \o crossref_matches_any(text, j + 2)
             ELSE crossref_matches_any(text, k + 1)

\* Line 383: the matches of r'(?<!`)\[\[(.+?)\]\]' in text from place k on,
\* left to right and not overlapping. The group is lazy, so a match ends at
\* the first "]]" that leaves it a character, and `.` matches no newline.
RECURSIVE crossref_matches(_, _)
crossref_matches(text, k) ==
    IF k + 4 > Len(text) THEN <<>>
    ELSE LET ends == {j \in (k + 3)..(Len(text) - 1) :
                         /\ text[j] = "]" /\ text[j + 1] = "]"
                         /\ \A h \in (k + 2)..(j - 1) : text[h] # NL}
         IN  IF /\ text[k] = "[" /\ text[k + 1] = "["
                /\ (k = 1 \/ text[k - 1] # GRAVE)
                /\ ends # {}
             THEN LET j == CHOOSE e \in ends : \A h \in ends : e <= h
                  IN  <<[from |-> k, to |-> j + 1]>> \o crossref_matches(text, j + 2)
             ELSE crossref_matches(text, k + 1)

\* The places of "#" in a match's group.
anchors(group) == {k \in 1..Len(group) : group[k] = "#"}

HTML == <<"h", "t", "m", "l">>

\* Lines 363-373: the link that replaces a match with this group 1, for a
\* group with at most one "#". destination is called with its defaults for
\* replace_dots and extension.
replace_crossref(group, preserve, out) ==
    IF anchors(group) # {}
    THEN LET k == CHOOSE a \in anchors(group) : TRUE
             name == SubSeq(group, 1, k - 1)
             anchor == SubSeq(group, k + 1, Len(group))
         IN  <<" ", "[">> \o name \o <<"]", "(">>
                 \o path_split(destination(name, preserve, out, FALSE, HTML)).tail
                 \o <<"#">> \o anchor \o <<")">>
    ELSE <<" ", "[">> \o group \o <<"]", "(">>
             \o path_split(destination(group, preserve, out, FALSE, HTML)).tail
             \o <<")">>

\* re.sub with the matches found: the text from place k on, each match
\* replaced.
RECURSIVE crossref_sub(_, _, _, _, _)
crossref_sub(text, k, matches, preserve, out) ==
    IF matches = <<>> THEN SubSeq(text, k, Len(text))
    ELSE LET m == Head(matches)
         IN  SubSeq(text, k, m.from - 1)
                 \o replace_crossref(SubSeq(text, m.from + 2, m.to - 2), preserve, out)
                 \o crossref_sub(text, m.to + 1, Tail(matches), preserve, out)

\* Line 366: name, anchor = match.group(1).split('#') raises ValueError when
\* the group of some match has more than one "#".
unpack_fails(text) ==
    LET matches == crossref_matches(text, 1)
    IN  \E n \in 1..Len(matches) :
           Cardinality(anchors(SubSeq(text, matches[n].from + 2, matches[n].to - 2))) > 1

\* preprocess(comment, preserve_paths, outdir), for an outdir that is not
\* empty and a comment on which line 366 does not fail.
preprocess(text, preserve, out) ==
    LET sectioned == section_sub(text)
    IN  crossref_sub(sectioned, 1, crossref_matches(sectioned, 1), preserve, out)

\* The parts the comments are made of: references to a file, with and
\* without an anchor and with two, a backtick, text, white space, a heading
\* line, and loose equals signs and brackets.
Reference == <<"[", "[", "a", ".", "d", "]", "]">>
AnchoredReference == <<"[", "[", "d", "/", "a", "#", "x", "]", "]">>
TwiceAnchoredReference == <<"[", "[", "a", "#", "x", "#", "y", "]", "]">>
HeadingLine == <<"=", "=", " ", "H", " ", "a", " ", "=", "=">>
Backtick == <<GRAVE>>

CommentParts ==
    {Reference, AnchoredReference, TwiceAnchoredReference, HeadingLine, Backtick,
     <<"t">>, SP, <<NL>>, <<"=">>, <<"[", "[">>, <<"]", "]">>}

\* ''.join(list)
RECURSIVE concat(_)
concat(list) == IF list = <<>> THEN <<>> ELSE Head(list) \o concat(Tail(list))

InitPreprocess ==
    /\ pc = "preprocess"
    /\ raised = "none"
    /\ comment_parts \in UNION {[1..k -> CommentParts] : k \in 0..MaxParts}
    /\ comment = concat(comment_parts)
    /\ preprocessed = <<>>
    /\ filepath = <<>>
    /\ preserve_paths \in BOOLEAN
    /\ outdir \in {<<>>, <<"d">>}
    /\ replace_dots = FALSE
    /\ extension = <<>>
    /\ dest = <<>>
    /\ ParseIdle
    /\ GetLanguageIdle
    /\ ProcessIdle
    /\ LangIdle
    /\ RestIdle

\* Lines 357-358 and 366: preprocess raises.
PreprocessRaises ==
    /\ pc = "preprocess"
    /\ \/ outdir = <<>> /\ raised' = "TypeError"
       \/ outdir # <<>> /\ unpack_fails(section_sub(comment)) /\ raised' = "ValueError"
    /\ pc' = "raised"
    /\ UNCHANGED <<preprocess_vars, dest_vars, parse_vars, get_language_vars, process_vars,
                   lang_vars, rest_vars>>

\* Lines 382-385.
PreprocessReturns ==
    /\ pc = "preprocess"
    /\ outdir # <<>>
    /\ ~unpack_fails(section_sub(comment))
    /\ preprocessed' = preprocess(comment, preserve_paths, outdir)
    /\ pc' = "done"
    /\ UNCHANGED <<comment, comment_parts, raised>>
    /\ UNCHANGED <<dest_vars, parse_vars, get_language_vars, process_vars, lang_vars, rest_vars>>

NextPreprocess == PreprocessReturns \/ PreprocessRaises

PreprocessSpec == InitPreprocess /\ [][NextPreprocess]_vars

\* ------------------------------------------------------------------------
\* Properties of preprocess.
\* ------------------------------------------------------------------------

\* The target and the anchor of the two references with at most one anchor.
TargetOf(part) == IF part = Reference THEN <<"a", ".", "d">> ELSE <<"d", SEP, "a">>

AnchorOf(part) == IF part = Reference THEN <<>> ELSE <<"#", "x">>

\* The link a reference is to become: the target as its label, and as its
\* URL the file name of the target's destination under the outdir and
\* preserve_paths of the call, then the anchor. (The link follows a space.)
LinkFor(part) ==
    <<" ", "[">> \o TargetOf(part) \o <<"]", "(">>
        \o FileName(destination(TargetOf(part), preserve_paths, outdir, FALSE, HTML))
        \o AnchorOf(part) \o <<")">>

\* The comment's parts from the k-th on, each reference that no backtick
\* stands before turned into its link.
RECURSIVE LinkedFrom(_)
LinkedFrom(k) ==
    IF k > Len(comment_parts) THEN <<>>
    ELSE (IF /\ comment_parts[k] \in {Reference, AnchoredReference}
             /\ (k = 1 \/ comment_parts[k - 1] # Backtick)
          THEN LinkFor(comment_parts[k])
          ELSE comment_parts[k]) \o LinkedFrom(k + 1)

\* A comment of text, white space, backticks, equals signs and references
\* with at most one anchor, which does not start with an equals sign.
PlainWithReferences ==
    /\ \A k \in 1..Len(comment_parts) :
          comment_parts[k] \notin {TwiceAnchoredReference, <<"[", "[">>, <<"]", "]">>}
    /\ comment_parts # <<>> => Head(comment_parts) \notin {<<"=">>, HeadingLine}

\* C14: preprocess turns each [[target]] and [[target#anchor]] that no
\* backtick stands right before into a link with the target as its label and
\* the file name of destination(target), plus the anchor, as its URL, and
\* leaves one that a backtick stands right before as it is.
C14_CrossReferences ==
    (pc = "done" /\ outdir # <<>> /\ PlainWithReferences) => preprocessed = LinkedFrom(1)

\* C14 witness: a reference after a backtick was kept and the anchored
\* reference after it was turned into its link.
C14_Witness ==
    /\ pc = "done"
    /\ comment_parts = <<Backtick, Reference, AnchoredReference>>
    /\ preprocessed = <<GRAVE>> \o Reference \o <<" ", "[", "d", "/", "a", "]", "(", "a", ".", "h", "t", "m", "l", "#", "x", ")">>

\* s holds sub as a substring.
Contains(s, sub) == \E k \in 0..(Len(s) - Len(sub)) : SubSeq(s, k + 1, k + Len(sub)) = sub

\* A comment of text and white space in which the heading line stands as a
\* line of its own.
HeadingOnItsLine ==
    /\ \E k \in 1..Len(comment_parts) :
          /\ comment_parts[k] = HeadingLine
          /\ (k = 1 \/ comment_parts[k - 1] = <<NL>>)
          /\ (k = Len(comment_parts) \/ comment_parts[k + 1] = <<NL>>)
    /\ \A k \in 1..Len(comment_parts) :
          comment_parts[k] \in {HeadingLine, <<"t">>, <<NL>>}

\* C15: a line of N equals signs, a heading text and N equals signs becomes,
\* wherever it stands in the comment, a heading of level N whose id is the
\* text in lower case, trimmed, with a hyphen for each space inside it.
C15_EveryHeadingLine ==
    (pc = "done" /\ outdir # <<>> /\ HeadingOnItsLine) =>
        /\ Contains(preprocessed, <<"#", "#", " ", "<", "s", "p", "a", "n", " ", "i", "d", "=", "\"", "h", "-", "a", "\"", " ", "h", "r", "e", "f", "=", "\"", "h", "-", "a", "\"", ">", " ", "H", " ", "a", " ", "<", "/", "s", "p", "a", "n", ">">>)
        /\ ~Contains(preprocessed, HeadingLine)

\* ------------------------------------------------------------------------
\* pycco/languages.py: lang(name, comment_symbol, multistart, multiend)
\* ------------------------------------------------------------------------

\* The comment symbols and the block delimiters of the table.
CommentSymbols == {l.comment_symbol : l \in Languages}

Delimiters ==
    {l.multistart : l \in {d \in Languages : "multistart" \in DOMAIN d}}
        \cup {l.multiend : l \in {d \in Languages : "multiend" \in DOMAIN d}}

\* The calls of lang: a comment symbol, and for each delimiter one of the
\* table's or the None default.
InitLang ==
    /\ pc = "lang"
    /\ raised = "none"
    /\ lang_args \in [name : {"x"}, comment_symbol : CommentSymbols,
                      multistart : Delimiters \cup {None},
                      multiend : Delimiters \cup {None}]
    /\ definition = NoLanguage
    /\ ParseIdle
    /\ DestIdle
    /\ GetLanguageIdle
    /\ ProcessIdle
    /\ PreprocessIdle
    /\ RestIdle

\* Lines 43-46 of languages.py.
Lang ==
    /\ pc = "lang"
    /\ definition' = lang(lang_args.name, lang_args.comment_symbol, lang_args.multistart,
                          lang_args.multiend)
    /\ pc' = "done"
    /\ UNCHANGED <<lang_args, raised>>
    /\ UNCHANGED <<parse_vars, dest_vars, get_language_vars, process_vars, preprocess_vars,
                   rest_vars>>

NextLang == Lang

LangSpec == InitLang /\ [][NextLang]_vars

\* ------------------------------------------------------------------------
\* Properties of the language definitions.
\* ------------------------------------------------------------------------

\* A definition with a comment symbol that is not empty and with both block
\* delimiters or with neither.
WellFormedDefinition(d) ==
    /\ {"name", "comment_symbol"} \subseteq DOMAIN d
    /\ DOMAIN d \subseteq {"name", "comment_symbol", "multistart", "multiend"}
    /\ d.comment_symbol # <<>>
    /\ ("multistart" \in DOMAIN d) <=> ("multiend" \in DOMAIN d)

MaxList == 3

\* Most calls of shift on one list.
MaxShifts == 5

\* shift that returns the first item and leaves it in the list.
shift_keep(list, value) ==
    IF list # <<>> THEN [returned |-> Head(list), a_list |-> list]
    ELSE [returned |-> value, a_list |-> list]

\* Lines 577-580: what shift returns and the list it leaves. a_list.pop(0)
\* raises IndexError on an empty list, and the default is returned then.
shift(list, value) ==
    IF list # <<>> THEN [returned |-> Head(list), a_list |-> Tail(list)]
    ELSE [returned |-> value, a_list |-> list]

\* The items of the lists, and the defaults.
Items == {"a", "b", ""}
Defaults == {"", "z"}

InitShift ==
    /\ pc = "shift"
    /\ raised = "none"
    /\ given_list \in UNION {[1..k -> Items] : k \in 0..MaxList}
    /\ a_list = given_list
    /\ default \in Defaults
    /\ shifted = <<>>
    /\ fragments = <<>>
    /\ escape_html = FALSE
    /\ ParseIdle
    /\ DestIdle
    /\ GetLanguageIdle
    /\ ProcessIdle
    /\ PreprocessIdle
    /\ LangIdle

\* One call of shift on the list.
Shift ==
    /\ pc = "shift"
    /\ Len(shifted) < MaxShifts
    /\ LET r == shift(a_list, default)
       IN  /\ a_list' = r.a_list
           /\ shifted' = Append(shifted, r.returned)
    /\ UNCHANGED <<pc, raised, default, given_list, highlight_vars>>
    /\ UNCHANGED <<parse_vars, dest_vars, get_language_vars, process_vars, preprocess_vars,
                   lang_vars>>

NextShift == Shift

ShiftSpec == InitShift /\ [][NextShift]_vars

\* ------------------------------------------------------------------------
\* Properties of shift.
\* ------------------------------------------------------------------------

\* C17: each call of shift on a list that is not empty returns its first item
\* and removes that item only; on the empty list it returns the default and
\* leaves the list empty. So the calls return the items of the list in their
\* order and then the default, every time.
C17_ShiftInOrder ==
    /\ \A k \in 1..Len(shifted) :
          shifted[k] = IF k <= Len(given_list) THEN given_list[k] ELSE default
    /\ a_list = SubSeq(given_list, Len(shifted) + 1, Len(given_list))

\* C17 witness: a list of two items was shifted four times; the last two
\* calls returned the default.
C17_Witness ==
    /\ given_list = <<"b", "a">>
    /\ default = "z"
    /\ shifted = <<"b", "a", "z", "z">>
    /\ a_list = <<>>

\* ------------------------------------------------------------------------
\* parse: the block comments of the first loop and the indentation of the
\* second.
\* ------------------------------------------------------------------------

\* The converted line is a single-line comment holding `text`.
CommentLineOf(line, text) == line = single_line_comment_symbol \o SP \o text

\* C18: in the first loop, while a block comment is open every line becomes
\* a single-line comment line; the first line that ends with the closing
\* delimiter becomes one too, without that delimiter, and lowers
\* in_multi_comment, also when the two delimiters are the same string and
\* when the closing line starts with the opening delimiter.
C18_BlockCommentRun ==
    [][(pc = "normalize" /\ HasBlockDelimiters /\ in_multi_comment) =>
          LET stripped_line == strip(lines[i])
              converted == converted_lines'[Len(converted_lines')]
          IN  IF endswith(stripped_line, multi_comment_end)
              THEN /\ ~in_multi_comment'
                   /\ comment_matcher_match(single_line_comment_symbol, converted)
                   /\ ~endswith(converted, multi_comment_end)
              ELSE /\ in_multi_comment'
                   /\ CommentLineOf(converted, stripped_line)]_vars

\* Longest input text, in lines, of the indented texts.
MaxIndentLines == 3

TAB == "\t"

\* Lines with a tab or with spaces in front: one that ends with the block
\* start, which opens a multi-line run in the second loop with its
\* indentation, and lines that start with that indentation or do not.
IndentShapes ==
    {<<TAB>> \o X \o SP \o SLASH_STAR,
     SP \o SP \o X \o SP \o SLASH_STAR,
     <<TAB, "y">>,
     SP \o <<"y">>,
     SP \o SP \o SP \o <<"y">>}

InitIndent ==
    /\ source_language = c_lang
    /\ source_code \in Texts(IndentShapes, MaxIndentLines)
    /\ pc = "parse"
    /\ raised = "none"
    /\ lines = <<>>
    /\ converted_lines = <<>>
    /\ i = 1
    /\ in_multi_comment = FALSE
    /\ multi_line = FALSE
    /\ multi_string = FALSE
    /\ process_as_code = FALSE
    /\ indent_level = Unbound
    /\ has_code = FALSE
    /\ docs_text = <<>>
    /\ code_text = <<>>
    /\ sections = <<>>
    /\ dycco_sections = <<>>
    /\ DestIdle
    /\ LaterIdle

\* parse on its generic path.
NextGeneric == ParseEntry \/ NormalizeLine \/ SplitLine \/ ParseReturn

IndentSpec == InitIndent /\ [][NextGeneric]_vars

\* C19: in a multi-line run of the second loop, a line that starts with the
\* indentation of the run's first line, spaces or tabs, is appended to
\* docs_text without it, and a line that does not is appended as it is.
C19_IndentationPrefix ==
    [][(/\ pc = "split"
        /\ ~delimiter_found(converted_lines[i])
        /\ multi_line
        /\ indent_level # Unbound) =>
          LET line == converted_lines[i]
          IN  docs_text' = docs_text
                  \o (IF startswith(line, indent_level)
                      THEN SubSeq(line, Len(indent_level) + 1, Len(line))
                      ELSE line)
                  \o <<NL>>]_vars

\* ------------------------------------------------------------------------
\* pycco/main.py: highlight(sections, language, preserve_paths, outdir,
\* use_ascii, escape_html, single_file)
\* ------------------------------------------------------------------------

MaxSections == 2

\* The documentation and the code of the sections handed to highlight: plain
\* text, text that html.escape changes, a cross-reference, and a
\* cross-reference on which preprocess raises ValueError.
DocsTexts == {<<"t">>, <<"<", "&">>, Reference, TwiceAnchoredReference}
CodeTexts == {<<>>, <<"x", NL>>}

\* Lines 599-602: the text Pygments puts around its output, each kept whole as
\* one item of the text.
highlight_start == <<"<div class=\"highlight\"><pre>">>
highlight_end == <<"</pre></div>">>

\* Line 415: the k-th piece of re.split(divider_html, output). What Pygments
\* makes of the code is not modelled; the pieces differ from one another.
Fragment(k) == [j \in 1..k |-> "f"]

\* Line 431: html.escape(docs_text), quote=True.
escape_char(c) ==
    CASE c = "&" -> <<"&", "a", "m", "p", ";">>
      [] c = "<" -> <<"&", "l", "t", ";">>
      [] c = ">" -> <<"&", "g", "t", ";">>
      [] c = "\"" -> <<"&", "q", "u", "o", "t", ";">>
      [] c = "'" -> <<"&", "#", "x", "2", "7", ";">>
      [] OTHER -> <<c>>

RECURSIVE html_escape(_)
html_escape(text) ==
    IF text = <<>> THEN <<>> ELSE escape_char(Head(text)) \o html_escape(Tail(text))

\* Lines 429-431: the local docs_text of one pass of the loop.
local_docs_text(section, escape) ==
    IF escape THEN html_escape(section.docs_text) ELSE section.docs_text

\* Lines 419-427: the section with its code_html. What dycco and Pygments
\* return is the name of the producer with the text it was given.
with_code_html(section, frags, single) ==
    [name \in DOMAIN section \cup {"code_html"} |->
        IF name = "code_html"
        THEN IF single
             THEN [by |-> "preprocess_code", text |-> section.code_text]
             ELSE [by |-> "pygments",
                   text |-> highlight_start \o shift(frags, <<>>).returned \o highlight_end]
        ELSE section[name]]

\* The variant of highlight_section that stores the escaped text in the
\* section.
highlight_section_escaping(section, frags, k, preserve, out, ascii, escape, single) ==
    LET coded == with_code_html(section, frags, single)
        docs == local_docs_text(section, escape)
        names == DOMAIN coded \cup {"num"} \cup (IF single THEN {} ELSE {"docs_html"})
    IN  [name \in names |->
            CASE name = "num" -> k
              [] name = "docs_text" -> docs
              [] name = "docs_html" ->
                    IF ascii THEN [by |-> "preprocess_docs", text |-> docs]
                    ELSE [by |-> "markdown", text |-> preprocess(docs, preserve, out)]
              [] OTHER -> coded[name]]

\* Lines 419-447: one pass of the loop over section number k (from 0), for
\* a docs_text on which preprocess does not raise.
highlight_section(section, frags, k, preserve, out, ascii, escape, single) ==
    LET coded == with_code_html(section, frags, single)
        docs == local_docs_text(section, escape)
        names == DOMAIN coded \cup {"num"} \cup (IF single THEN {} ELSE {"docs_html"})
    IN  [name \in names |->
            CASE name = "num" -> k
              [] name = "docs_html" ->
                    IF ascii THEN [by |-> "preprocess_docs", text |-> docs]
                    ELSE [by |-> "markdown", text |-> preprocess(docs, preserve, out)]
              [] OTHER -> coded[name]]

\* Line 440: preprocess raises ValueError on the section's docs_text.
docs_raise(section, ascii, escape, single) ==
    /\ ~single
    /\ ~ascii
    /\ unpack_fails(section_sub(local_docs_text(section, escape)))

InitHighlight ==
    /\ pc = "highlight"
    /\ raised = "none"
    /\ sections \in UNION {[1..n -> [docs_text : DocsTexts, code_text : CodeTexts]] :
                              n \in 0..MaxSections}
    /\ i = 1
    /\ source_language = c_lang
    /\ preserve_paths \in BOOLEAN
    /\ outdir \in {<<>>, <<"d">>}
    /\ use_ascii \in BOOLEAN
    /\ escape_html \in BOOLEAN
    /\ single_file \in BOOLEAN
    /\ fragments = <<>>
    /\ source_code = <<>>
    /\ lines = <<>>
    /\ converted_lines = <<>>
    /\ in_multi_comment = FALSE
    /\ multi_line = FALSE
    /\ multi_string = FALSE
    /\ process_as_code = FALSE
    /\ indent_level = Unbound
    /\ has_code = FALSE
    /\ docs_text = <<>>
    /\ code_text = <<>>
    /\ dycco_sections = <<>>
    /\ filepath = <<>>
    /\ replace_dots = FALSE
    /\ extension = <<>>
    /\ dest = <<>>
    /\ sources_arg = <<>>
    /\ sources = <<>>
    /\ skip = FALSE
    /\ index = FALSE
    /\ generated_files = <<>>
    /\ attempts = <<>>
    /\ indexed = <<>>
    /\ GetLanguageIdle
    /\ PreprocessIdle
    /\ LangIdle
    /\ ShiftIdle

\* What highlight leaves alone.
highlight_frame ==
    /\ UNCHANGED <<source_code, source_language, lines, converted_lines, in_multi_comment,
                   multi_line, multi_string, process_as_code, indent_level, has_code,
                   docs_text, code_text, dycco_sections>>
    /\ UNCHANGED <<dest_vars, get_language_vars, process_vars, preprocess_vars, lang_vars,
                   shift_vars, escape_html>>

\* Lines 402-403.
HighlightRaises ==
    /\ pc = "highlight"
    /\ outdir = <<>>
    /\ raised' = "TypeError"
    /\ pc' = "raised"
    /\ UNCHANGED <<sections, i, fragments>>
    /\ highlight_frame

\* Lines 405-415: Pygments and the split give some number of fragments,
\* which is the number of sections when each divider comes back as
\* divider_html.
HighlightEntry ==
    /\ pc = "highlight"
    /\ outdir # <<>>
    /\ IF single_file
       THEN fragments' = fragments
       ELSE \E n \in 0..(Len(sections) + 1) : fragments' = [k \in 1..n |-> Fragment(k)]
    /\ pc' = "highlight_loop"
    /\ UNCHANGED <<sections, i, raised>>
    /\ highlight_frame

\* Lines 417-447: one pass of the loop.
HighlightSection ==
    /\ pc = "highlight_loop"
    /\ i <= Len(sections)
    /\ ~docs_raise(sections[i], use_ascii, escape_html, single_file)
    /\ sections' = [sections EXCEPT ![i] =
                       highlight_section(sections[i], fragments, i - 1, preserve_paths,
                                         outdir, use_ascii, escape_html, single_file)]
    /\ fragments' = IF single_file THEN fragments ELSE shift(fragments, <<>>).a_list
    /\ i' = i + 1
    /\ UNCHANGED <<pc, raised>>
    /\ highlight_frame

\* Lines 417-440: the pass in which preprocess raises, after code_html was
\* attached.
HighlightSectionRaises ==
    /\ pc = "highlight_loop"
    /\ i <= Len(sections)
    /\ docs_raise(sections[i], use_ascii, escape_html, single_file)
    /\ sections' = [sections EXCEPT ![i] = with_code_html(sections[i], fragments, single_file)]
    /\ fragments' = shift(fragments, <<>>).a_list
    /\ raised' = "ValueError"
    /\ pc' = "raised"
    /\ UNCHANGED i
    /\ highlight_frame

\* Line 449.
HighlightReturn ==
    /\ pc = "highlight_loop"
    /\ i > Len(sections)
    /\ pc' = "done"
    /\ UNCHANGED <<sections, i, fragments, raised>>
    /\ highlight_frame

NextHighlight ==
    \/ HighlightRaises
    \/ HighlightEntry
    \/ HighlightSection
    \/ HighlightSectionRaises
    \/ HighlightReturn

HighlightSpec == InitHighlight /\ [][NextHighlight]_vars

\* ------------------------------------------------------------------------
\* Properties of highlight.
\* ------------------------------------------------------------------------

\* highlight is running.
Highlighting == pc \in {"highlight", "highlight_loop"}

\* The step keeps the number of the sections and the two texts of each.
SplitKept ==
    /\ Len(sections') = Len(sections)
    /\ \A k \in 1..Len(sections) :
          /\ sections'[k].docs_text = sections[k].docs_text
          /\ sections'[k].code_text = sections[k].code_text

\* The section has its code_html and its position from 0 as num.
Numbered(secs, k) ==
    /\ {"code_html", "num"} \subseteq DOMAIN secs[k]
    /\ secs[k].num = k - 1

\* C20 as stated: in every step of highlight the sections keep their number,
\* order and texts, and when highlight returns each section has docs_html,
\* code_html and num, num being its position from 0, whatever the options.
C20_AttachedInEveryMode ==
    [][Highlighting =>
          /\ SplitKept
          /\ (pc' = "done" =>
                 \A k \in 1..Len(sections') :
                    /\ Numbered(sections', k)
                    /\ "docs_html" \in DOMAIN sections'[k])]_vars

\* C20, amended: in every step of highlight the sections keep their number,
\* order and texts, and when highlight returns each section has code_html
\* and num, num being its position from 0, and has docs_html exactly when
\* single_file is off.
C20_Attached ==
    [][Highlighting =>
          /\ SplitKept
          /\ (pc' = "done" =>
                 \A k \in 1..Len(sections') :
                    /\ Numbered(sections', k)
                    /\ ("docs_html" \in DOMAIN sections'[k]) <=> ~single_file)]_vars

\* highlight has returned two sections in single_file mode with escape_html
\* on, one of them with a text that html.escape changes.
C20_Witness ==
    /\ pc = "done"
    /\ single_file
    /\ escape_html
    /\ Len(sections) = 2
    /\ \E k \in 1..2 : html_escape(sections[k].docs_text) # sections[k].docs_text
    /\ \A k \in 1..2 : DOMAIN sections[k] = {"docs_text", "code_text", "code_html", "num"}

\* ------------------------------------------------------------------------
\* parse: the python path.
\* ------------------------------------------------------------------------

\* The entries of a list that are not None, empty strings among them.
NonAbsent(list) == SelectSeq(list, LAMBDA e : e # None)

\* The text without one leading triple-quote token, if it starts with one.
WithoutOneToken(text) ==
    IF startswith(text, TRIPLE_QUOTE) \/ startswith(text, <<"'", "'", "'">>)
    THEN SubSeq(text, 4, Len(text))
    ELSE text

\* The pairs of the entries with the keys given, in ascending order of the
\* keys, each text the newline-join of the entries that are not None; the
\* pairs with two empty texts are left out, as save leaves them out.
RECURSIVE JoinedEntries(_, _)
JoinedEntries(d, keys) ==
    IF keys = {} THEN <<>>
    ELSE LET key == CHOOSE k \in keys : \A j \in keys : k <= j
             docs == join(<<NL>>, NonAbsent(d[key].docs))
             code == WithoutOneToken(join(<<NL>>, NonAbsent(d[key].code)))
         IN  (IF docs # <<>> \/ code # <<>>
              THEN <<[docs_text |-> docs, code_text |-> code]>>
              ELSE <<>>)
             \o JoinedEntries(d, keys \ {key})

\* C21: when parse returns on the python path, the sections are dycco's
\* entries in ascending order of their keys, docs_text and code_text the
\* newline-join of the entries that are not None (empty strings kept), and
\* code_text without one leading triple-quote token.
C21_PythonEntriesJoined ==
    (pc = "done" /\ source_language.name = "python") =>
        sections = JoinedEntries(dycco_sections, DOMAIN dycco_sections)

\* ------------------------------------------------------------------------
\* parse: the pairs of the second loop.
\* ------------------------------------------------------------------------

\* C22: in the second loop of the generic path a line is added to the
\* documentation of a pair only while the pair has no code yet: the section
\* a pass saves has the documentation gathered before the pass unless it has
\* no code, and a pass that saves nothing adds to docs_text only when
\* code_text is empty. So the lines of a section's docs_text come before the
\* lines of its code_text.
C22_DocsBeforeCode ==
    [][(pc = "split" /\ Generic) =>
          /\ (sections' # sections =>
                 LET saved == sections'[Len(sections')]
                 IN  saved.docs_text = docs_text \/ saved.code_text = <<>>)
          /\ ((sections' = sections /\ docs_text' # docs_text) => code_text = <<>>)]_vars

\* ------------------------------------------------------------------------
\* process: the file written for a source and the link to it in the
\* documentation of another source of the same run.
\* ------------------------------------------------------------------------

MaxTarget == 3

\* The source files that are the target of a reference.
Targets == {p \in Paths : Len(p) \in 1..MaxTarget}

\* The options of the run, the target (filepath) and the comment [[target]]
\* of the source that refers to it.
InitCrossRef ==
    /\ pc = "next_file"
    /\ raised = "none"
    /\ filepath \in Targets
    /\ comment = <<"[", "[">> \o filepath \o <<"]", "]">>
    /\ comment_parts = <<comment>>
    /\ preprocessed = <<>>
    /\ preserve_paths \in BOOLEAN
    /\ replace_dots \in BOOLEAN
    /\ use_ascii \in BOOLEAN
    /\ single_file \in BOOLEAN
    /\ outdir \in {<<"d">>, <<SEP, "d">>}
    /\ extension = <<>>
    /\ dest = <<>>
    /\ sources_arg = <<>>
    /\ sources = <<>>
    /\ skip = FALSE
    /\ index = FALSE
    /\ generated_files = <<>>
    /\ attempts = <<>>
    /\ indexed = <<>>
    /\ ParseIdle
    /\ GetLanguageIdle
    /\ LangIdle
    /\ RestIdle

\* Lines 631-635 and 649-650: the file process writes for the target.
WriteTarget ==
    /\ pc = "next_file"
    /\ extension' = process_extension(single_file, use_ascii)
    /\ dest' = destination(filepath, preserve_paths, outdir, replace_dots, extension')
    /\ pc' = "highlight"
    /\ UNCHANGED <<filepath, preserve_paths, outdir, replace_dots>>
    /\ UNCHANGED <<raised, parse_vars, get_language_vars, process_vars, preprocess_vars,
                   lang_vars, rest_vars>>

\* Lines 439-440: highlight, called with the preserve_paths and outdir of the
\* run (lines 655-658 and 127-128), has preprocess rewrite the comment.
RewriteReference ==
    /\ pc = "highlight"
    /\ ~single_file
    /\ ~use_ascii
    /\ preprocessed' = preprocess(comment, preserve_paths, outdir)
    /\ pc' = "done"
    /\ UNCHANGED <<comment, comment_parts>>
    /\ UNCHANGED <<raised, parse_vars, dest_vars, get_language_vars, process_vars, lang_vars,
                   rest_vars>>

\* Lines 432-436: with single_file or use_ascii highlight does not call
\* preprocess.
SkipPreprocess ==
    /\ pc = "highlight"
    /\ single_file \/ use_ascii
    /\ pc' = "done"
    /\ UNCHANGED <<raised, parse_vars, dest_vars, get_language_vars, process_vars,
                   preprocess_vars, lang_vars, rest_vars>>

NextCrossRef == WriteTarget \/ RewriteReference \/ SkipPreprocess

CrossRefSpec == InitCrossRef /\ [][NextCrossRef]_vars

\* The name of the file written, without its directories.
WrittenName == path_split(dest).tail

\* C23: when the run has rewritten the reference [[target]], the link is
\* " [target](name)" with name the name of the file the run writes for the
\* target, whatever preserve_paths and underlines are.
C23_LinkIsWrittenFile ==
    (pc = "done" /\ ~single_file /\ ~use_ascii) =>
        preprocessed = <<" ", "[">> \o filepath \o <<"]", "(">> \o WrittenName \o <<")">>

\* The pass of the second loop added its line to the documentation: docs_text
\* changed, or a section was saved (only the branches that add to the
\* documentation save one).
AddedToDocs == docs_text' # docs_text \/ sections' # sections

\* The pass of the second loop added its line to the code.
AddedToCode == has_code' /\ (code_text' # code_text \/ sections' # sections)

\* C24: every pass of the second loop adds its line to exactly one of the
\* two buffers, to docs_text or to code_text and never to both, whatever
\* lines came before.
C24_ExactlyOneBuffer ==
    [][(pc = "split" /\ Generic) => (AddedToDocs /\ ~AddedToCode) \/ (AddedToCode /\ ~AddedToDocs)]_vars

\* ------------------------------------------------------------------------
\* parse: the flags of the second loop.
\* ------------------------------------------------------------------------

\* C25: for a language with both block delimiters, before and after every
\* pass of the second loop multi_line and multi_string are not both true and
\* indent_level is assigned whenever multi_line is true, and parse never
\* ends with the UnboundLocalError of reading an unassigned indent_level.
C25_FlagsConsistent ==
    (Generic /\ HasBlockDelimiters) =>
        /\ raised # "UnboundLocalError"
        /\ pc \in {"split", "save", "done"} =>
              /\ ~(multi_line /\ multi_string)
              /\ multi_line => indent_level # Unbound

\* The second loop has passed three lines, the first of which raised
\* multi_string (it is in the code and ends with a delimiter), and is inside
\* a multi-line comment, indent_level assigned.
C25_Witness ==
    /\ Generic
    /\ HasBlockDelimiters
    /\ pc = "save"
    /\ Len(converted_lines) = 3
    /\ delimiter_found(converted_lines[1])
    /\ delimiter_found(converted_lines[3])
    /\ multi_line
    /\ ~multi_string
    /\ indent_level # Unbound

=============================================================================
